---- MODULE Spec2Model ----
(***************************************************************************)
(* Model of the go-zakat write path: the donation-receipt and distribution *)
(* use cases (validate, check references, compute the total) and their     *)
(* PostgreSQL repositories (header + items in one transaction).            *)
(*                                                                         *)
(* Storage is the committed content of the tables.  A transaction keeps    *)
(* its uncommitted writes in tx[p]; Commit applies them, a failed          *)
(* statement discards them (defer tx.Rollback).  Statements of different   *)
(* requests interleave; an UPDATE/DELETE of a header row waits while       *)
(* another open transaction has written that row, and a write of a unique  *)
(* receipt_number waits while another open transaction holds that number.  *)
(* Amounts are integers.  A Go pointer (or a nullable column) is <<>> for  *)
(* nil/NULL and <<v>> for a value.                                         *)
(*                                                                         *)
(* Receipt requests and distribution requests read and write disjoint      *)
(* tables and wait for no common lock, so their steps commute; a run sends *)
(* requests of one of the two kinds (workload), chosen when it starts; a   *)
(* third kind of run maintains the asnaf and mustahiq rows ("master").     *)
(* req[p].confirmed records the ids the use case has looked up with        *)
(* FindByID so far.                                                        *)
(*                                                                         *)
(* Rows of muzakki, mustahiq and programs are deleted by their own use     *)
(* cases and never created; dates, payment method, notes and rice_kg play  *)
(* no part in the write path's decisions and are left out of its rows.     *)
(*                                                                         *)
(* The reports (SpecReports) and the paginated lists (SpecLists) only read: *)
(* they run over tables holding rows the write path stores, with the dates *)
(* the requests gave, and keep the rows they return in result[p].          *)
(***************************************************************************)
EXTENDS Integers, Sequences, FiniteSets, TLC

\* ------------------------------------------------------------------ bounds
MaxItems == 3          \* longest item list a request carries
MaxReceipts == 2       \* receipt header ids handed out by gen_random_uuid()
MaxDistributions == 1  \* distribution header ids handed out
MaxUsers == 11         \* rows of table users
MaxAuthUsers == 2      \* accounts that register or sign in
MaxTokens == 5         \* tokens signed and not yet expired

\* ------------------------------------------------------------- vocabulary
None == <<>>
Some(v) == <<v>>
Val(o) == o[1]

Procs == {1, 2}
ReceiptIds == 1..MaxReceipts
DistributionIds == 1..MaxDistributions
UserIds == 1..MaxUsers

FundTypes == {"zakat", "infaq", "sadaqah"}
ZakatTypes == {"fitrah", "maal"}
SourceFundTypes == {"zakat_fitrah", "zakat_maal", "infaq", "sadaqah"}

MuzakkiIds == {"m1"}
MustahiqIds == {"b1", "b2"}
ProgramIds == {"p1"}
AsnafIds == {"a1", "a2"}

VARIABLES
  muzakki,            \* ids of the rows of table muzakki
  mustahiq,           \* ids of the rows of table mustahiq
  programs,           \* ids of the rows of table programs
  users,              \* ids of the rows of table users, in created_at order
  roleOf,             \* users.role of each users row
  statusOf,           \* mustahiq.status of each mustahiq row
  tokens,             \* the access and refresh tokens the token service has
                      \* signed and that have not expired
  asnaf,              \* ids of the rows of table asnaf
  asnafOf,            \* mustahiq.asnafID: the category of each mustahiq row
  receipts,           \* donation_receipts: id -> header row
  receiptItems,       \* donation_receipt_items: receipt_id -> rows, by created_at
  nextReceiptId,      \* next id gen_random_uuid() hands to a receipt header
  distributions,      \* distributions: id -> header row
  distributionItems,  \* distribution_items: distribution_id -> rows
  nextDistributionId,
  pc,                 \* per request: the statement it is about to issue
  req,                \* per request: the use case's input and locals
  tx,                 \* per request: the open transaction's uncommitted writes
  result,             \* per request: "" while running, then "ok", the error
                      \* returned, or the response of a report or list
  workload            \* the requests a run sends: "receipts", "distributions",
                      \* "master", "reports" or the table whose list is read

master == <<muzakki, mustahiq, programs, users, roleOf, statusOf>>
receiptTables == <<receipts, receiptItems>>
distributionTables == <<distributions, distributionItems>>
storage == <<muzakki, mustahiq, programs, users, roleOf, statusOf, asnaf,
             asnafOf, receipts, receiptItems,
             distributions, distributionItems>>
vars == <<muzakki, mustahiq, programs, users, roleOf, statusOf, asnaf,
          asnafOf, receipts, receiptItems, nextReceiptId,
          distributions, distributionItems, nextDistributionId,
          tokens, pc, req, tx, result, workload>>

\* --------------------------------------------------------- request records
NoReq == [op |-> "", id |-> 0, muzakki_id |-> "", receipt_number |-> "",
          program_id |-> None, source_fund_type |-> "", items |-> None,
          total_amount |-> 0, idx |-> 0, confirmed |-> {},
          mustahiq_id |-> "", asnaf_id |-> "", name |-> "", status |-> ""]
NoTx == [open |-> FALSE, hdr |-> None, deleted |-> <<>>, inserted |-> <<>>]

ReceiptOps == {"ReceiptCreate", "ReceiptUpdate"}
DistributionOps == {"DistributionCreate", "DistributionUpdate"}
IsReceiptOp(op) == op \in ReceiptOps
IsDistributionOp(op) == op \in DistributionOps

\* ---------------------------------------------------------- Total Calculator
\* the loop with "totalAmount = amount" where the code has "+="
SumAmountsOverwrites(items) ==
  IF items = <<>> THEN 0 ELSE items[Len(items)].amount

RECURSIVE SumAmounts(_)
SumAmounts(items) ==
  IF items = <<>> THEN 0
  ELSE items[1].amount + SumAmounts(Tail(items))

\* ------------------------------------------------------------- validators
\* validator tags of CreateDonationReceiptItemInput; the failed "Field:tag"s
ValidateReceiptItem(it) ==
  (IF it.fund_type = "" THEN {"FundType:required"}
   ELSE IF it.fund_type \notin FundTypes THEN {"FundType:oneof"} ELSE {})
  \cup (IF it.zakat_type # None /\ Val(it.zakat_type) \notin ZakatTypes
        THEN {"ZakatType:oneof"} ELSE {})
  \cup (IF it.person_count # None /\ Val(it.person_count) < 1
        THEN {"PersonCount:min"} ELSE {})
  \cup (IF it.amount = 0 THEN {"Amount:required"}
        ELSE IF it.amount <= 0 THEN {"Amount:gt"} ELSE {})

\* Items `validate:"required,min=1,dive"`: a nil slice fails required, an
\* empty one min=1; dive then validates every element
ValidateItems(items) ==
  IF items = None THEN {"Items:required"}
  ELSE IF Len(Val(items)) < 1 THEN {"Items:min"}
  ELSE {}

\* the receipt input with Items tagged "required,dive", without min=1
ValidateReceiptInputNoMin(in) ==
  (IF in.muzakki_id = "" THEN {"MuzakkiID:required"} ELSE {})
  \cup (IF in.receipt_number = "" THEN {"ReceiptNumber:required"} ELSE {})
  \cup (IF in.items = None THEN {"Items:required"}
        ELSE UNION {ValidateReceiptItem(Val(in.items)[i]) : i \in 1..Len(Val(in.items))})

\* validator.Struct on CreateDonationReceiptInput / UpdateDonationReceiptInput
ValidateReceiptInput(in) ==
  (IF in.muzakki_id = "" THEN {"MuzakkiID:required"} ELSE {})
  \cup (IF in.receipt_number = "" THEN {"ReceiptNumber:required"} ELSE {})
  \cup ValidateItems(in.items)
  \cup (IF in.items = None THEN {}
        ELSE UNION {ValidateReceiptItem(Val(in.items)[i]) : i \in 1..Len(Val(in.items))})

\* the use case without its additional loop
ZakatTypeMissingNever(items) == FALSE

\* the use case's additional loop: fund_type = zakat needs a zakat_type
ZakatTypeMissing(items) ==
  \E i \in 1..Len(items) :
     /\ items[i].fund_type = "zakat"
     /\ (items[i].zakat_type = None \/ Val(items[i].zakat_type) = "")

\* ----------------------------------------------------------- storage views
\* an UPDATE that does not wait for the row lock of another transaction
RowNeverLocked(p, ops, id) == FALSE

\* some other open transaction has written header row id of the table
RowLocked(p, ops, id) ==
  \E q \in Procs \ {p} :
     tx[q].open /\ req[q].op \in ops /\ tx[q].hdr # None /\ req[q].id = id

\* some other open transaction holds receipt_number n in the unique index:
\* it wrote n, or it is replacing a committed row that carries n
NumberHeld(p, n) ==
  \E q \in Procs \ {p} :
     /\ tx[q].open /\ IsReceiptOp(req[q].op) /\ tx[q].hdr # None
     /\ \/ Val(tx[q].hdr).receipt_number = n
        \/ req[q].id \in DOMAIN receipts /\ receipts[req[q].id].receipt_number = n

\* a committed receipt other than id carries receipt_number n
NumberTaken(n, id) ==
  \E r \in DOMAIN receipts \ {id} : receipts[r].receipt_number = n

\* rows left after removing the rows a DELETE statement matched
RECURSIVE RemoveRows(_, _)
RemoveRows(rows, gone) ==
  IF gone = <<>> \/ rows = <<>> THEN rows
  ELSE IF rows[1] = gone[1] THEN RemoveRows(Tail(rows), Tail(gone))
  ELSE <<rows[1]>> \o RemoveRows(Tail(rows), gone)

\* ----------------------------------------------------------- request steps
\* the use case returns res to its handler, the token service having signed
\* the tokens in issued on the way
RespondIssuing(p, r, res, issued) ==
  /\ pc' = [pc EXCEPT ![p] = "done"]
  /\ req' = [req EXCEPT ![p] = r]
  /\ tx' = [tx EXCEPT ![p] = NoTx]
  /\ result' = [result EXCEPT ![p] = res]
  /\ tokens' = tokens \cup issued
  /\ UNCHANGED workload

\* the use case returns res to its handler
Respond(p, r, res) == RespondIssuing(p, r, res, {})

\* ... from an operation that writes neither asnaf nor mustahiq.asnafID
Finish(p, r, res) ==
  /\ Respond(p, r, res)
  /\ UNCHANGED <<asnaf, asnafOf>>

Goto(p, label, r, t) ==
  /\ pc' = [pc EXCEPT ![p] = label]
  /\ req' = [req EXCEPT ![p] = r]
  /\ tx' = [tx EXCEPT ![p] = t]
  /\ UNCHANGED <<result, workload, asnaf, asnafOf, tokens>>

ReceiptReq(op, in) ==
  [NoReq EXCEPT !.op = op, !.id = in.id, !.muzakki_id = in.muzakki_id,
                !.receipt_number = in.receipt_number, !.items = in.items]

\* DonationReceiptUseCase.Create up to the call of receiptRepo.Create;
\* found is what muzakkiRepo.FindByID answers (any error reads as not found)
ReceiptUseCaseCreate(p, in, dbUp) ==
  /\ pc[p] = "idle"
  /\ in.id = 0
  /\ UNCHANGED <<storage, nextReceiptId, nextDistributionId>>
  /\ LET r == ReceiptReq("ReceiptCreate", in) IN
     IF ValidateReceiptInput(in) # {} THEN Finish(p, r, "validation")
     ELSE IF ZakatTypeMissing(Val(in.items))
       THEN Finish(p, r, "zakat_type is required when fund_type is zakat")
     ELSE IF ~(dbUp /\ in.muzakki_id \in muzakki)
       THEN Finish(p, r, "muzakki not found")
     ELSE Goto(p, "insert_header",
               [r EXCEPT !.total_amount = SumAmounts(Val(in.items)),
                         !.confirmed = {in.muzakki_id}], NoTx)

ReceiptHeader(r) ==
  [muzakki_id |-> r.muzakki_id, receipt_number |-> r.receipt_number,
   total_amount |-> r.total_amount]

\* Create going on to the items although the INSERT reported a duplicate key
ReceiptRepoInsertHeaderIgnoresDuplicate(p) ==
  /\ pc[p] = "insert_header" /\ req[p].op = "ReceiptCreate"
  /\ nextReceiptId <= MaxReceipts
  /\ UNCHANGED <<storage, nextDistributionId>>
  /\ nextReceiptId' = nextReceiptId + 1
  /\ Goto(p, "insert_items", [req[p] EXCEPT !.id = nextReceiptId, !.idx = 1],
          [NoTx EXCEPT !.open = TRUE, !.hdr = Some(ReceiptHeader(req[p]))])

\* DonationReceiptRepository.Create: Begin and INSERT INTO donation_receipts
ReceiptRepoInsertHeader(p) ==
  /\ pc[p] = "insert_header" /\ req[p].op = "ReceiptCreate"
  /\ ~NumberHeld(p, req[p].receipt_number)
  /\ nextReceiptId <= MaxReceipts
  /\ UNCHANGED <<storage, nextDistributionId>>
  /\ IF NumberTaken(req[p].receipt_number, 0)
       THEN /\ Finish(p, req[p], "receipt number already exists")
            /\ UNCHANGED nextReceiptId
     ELSE IF req[p].muzakki_id \notin muzakki
       THEN /\ Finish(p, req[p], "muzakki or user not found")
            /\ UNCHANGED nextReceiptId
     ELSE /\ nextReceiptId' = nextReceiptId + 1
          /\ Goto(p, "insert_items",
                  [req[p] EXCEPT !.id = nextReceiptId, !.idx = 1],
                  [NoTx EXCEPT !.open = TRUE,
                     !.hdr = Some(ReceiptHeader(req[p]))])

\* the loop body of both repositories' item INSERT: one row per statement
InsertItem(p, ops) ==
  /\ pc[p] = "insert_items" /\ req[p].op \in ops
  /\ req[p].idx <= Len(Val(req[p].items))
  /\ Goto(p, "insert_items", [req[p] EXCEPT !.idx = @ + 1],
          [tx[p] EXCEPT !.inserted = Append(@, Val(req[p].items)[req[p].idx])])

ReceiptRepoInsertItem(p) ==
  /\ InsertItem(p, ReceiptOps)
  /\ UNCHANGED <<storage, nextReceiptId, nextDistributionId>>

\* the writes an open transaction has made so far, applied to the tables
ApplyWrites(p) ==
  IF ~tx[p].open THEN UNCHANGED <<receiptTables, distributionTables>>
  ELSE IF IsReceiptOp(req[p].op)
    THEN /\ receipts' = (req[p].id :> Val(tx[p].hdr)) @@ receipts
         /\ receiptItems' = [receiptItems EXCEPT ![req[p].id] =
                               RemoveRows(@, tx[p].deleted) \o tx[p].inserted]
         /\ UNCHANGED distributionTables
  ELSE /\ distributions' = (req[p].id :> Val(tx[p].hdr)) @@ distributions
       /\ distributionItems' = [distributionItems EXCEPT ![req[p].id] =
                                  RemoveRows(@, tx[p].deleted) \o tx[p].inserted]
       /\ UNCHANGED receiptTables

\* tx.Commit of DonationReceiptRepository.Create / Update
ReceiptRepoCommit(p) ==
  /\ pc[p] = "insert_items" /\ IsReceiptOp(req[p].op)
  /\ req[p].idx > Len(Val(req[p].items))
  /\ ApplyWrites(p)
  /\ Finish(p, req[p], "ok")
  /\ UNCHANGED <<master, nextReceiptId, nextDistributionId>>

\* DonationReceiptUseCase.Update up to the call of receiptRepo.Update
ReceiptUseCaseUpdate(p, in, dbUp) ==
  /\ pc[p] = "idle"
  /\ in.id # 0
  /\ UNCHANGED <<storage, nextReceiptId, nextDistributionId>>
  /\ LET r == ReceiptReq("ReceiptUpdate", in) IN
     IF ValidateReceiptInput(in) # {} THEN Finish(p, r, "validation")
     ELSE IF ZakatTypeMissing(Val(in.items))
       THEN Finish(p, r, "zakat_type is required when fund_type is zakat")
     ELSE IF ~(dbUp /\ in.id \in DOMAIN receipts)
       THEN Finish(p, r, "donation receipt not found")
     ELSE IF in.muzakki_id \notin muzakki
       THEN Finish(p, r, "muzakki not found")
     ELSE Goto(p, "update_header",
               [r EXCEPT !.total_amount = SumAmounts(Val(in.items)),
                         !.confirmed = {in.muzakki_id}], NoTx)

\* Update that never looks at RowsAffected of its header UPDATE
ReceiptRepoUpdateHeaderIgnoresRowCount(p) ==
  /\ pc[p] = "update_header" /\ req[p].op = "ReceiptUpdate"
  /\ ~RowLocked(p, ReceiptOps, req[p].id)
  /\ UNCHANGED <<storage, nextReceiptId, nextDistributionId>>
  /\ IF req[p].id \in DOMAIN receipts
        /\ NumberTaken(req[p].receipt_number, req[p].id)
       THEN Finish(p, req[p], "receipt number already exists")
     ELSE IF req[p].muzakki_id \notin muzakki
       THEN Finish(p, req[p], "muzakki not found")
     ELSE Goto(p, "delete_items", req[p],
               [NoTx EXCEPT !.open = TRUE,
                  !.hdr = Some(ReceiptHeader(req[p]))])

\* DonationReceiptRepository.Update: Begin and UPDATE donation_receipts
ReceiptRepoUpdateHeader(p) ==
  /\ pc[p] = "update_header" /\ req[p].op = "ReceiptUpdate"
  /\ ~RowLocked(p, ReceiptOps, req[p].id)
  /\ req[p].id \in DOMAIN receipts => ~NumberHeld(p, req[p].receipt_number)
  /\ UNCHANGED <<storage, nextReceiptId, nextDistributionId>>
  /\ IF req[p].id \notin DOMAIN receipts
       THEN Finish(p, req[p], "donation receipt not found")
     ELSE IF NumberTaken(req[p].receipt_number, req[p].id)
       THEN Finish(p, req[p], "receipt number already exists")
     ELSE IF req[p].muzakki_id \notin muzakki
       THEN Finish(p, req[p], "muzakki not found")
     ELSE Goto(p, "delete_items", req[p],
               [NoTx EXCEPT !.open = TRUE,
                  !.hdr = Some(ReceiptHeader(req[p]))])

\* Update without its DELETE of the existing items
ReceiptRepoDeleteItemsSkipped(p) ==
  /\ pc[p] = "delete_items" /\ req[p].op = "ReceiptUpdate"
  /\ Goto(p, "insert_items", [req[p] EXCEPT !.idx = 1], tx[p])
  /\ UNCHANGED <<storage, nextReceiptId, nextDistributionId>>

\* DELETE FROM donation_receipt_items WHERE receipt_id = $1
ReceiptRepoDeleteItems(p) ==
  /\ pc[p] = "delete_items" /\ req[p].op = "ReceiptUpdate"
  /\ Goto(p, "insert_items", [req[p] EXCEPT !.idx = 1],
          [tx[p] EXCEPT !.deleted = receiptItems[req[p].id]])
  /\ UNCHANGED <<storage, nextReceiptId, nextDistributionId>>

\* DonationReceiptUseCase.Delete: one DELETE statement, items go by CASCADE
ReceiptDelete(p, id) ==
  /\ pc[p] = "idle"
  /\ ~RowLocked(p, ReceiptOps, id)
  /\ IF id \in DOMAIN receipts
       THEN /\ receipts' = [r \in DOMAIN receipts \ {id} |-> receipts[r]]
            /\ receiptItems' = [receiptItems EXCEPT ![id] = <<>>]
            /\ Finish(p, [NoReq EXCEPT !.op = "ReceiptDelete", !.id = id], "ok")
       ELSE /\ UNCHANGED receiptTables
            /\ Finish(p, [NoReq EXCEPT !.op = "ReceiptDelete", !.id = id],
                      "donation receipt not found")
  /\ UNCHANGED <<master, distributionTables, nextReceiptId, nextDistributionId>>

\* -------------------------------------------------------------- distributions
DistributionHeader(r) ==
  [program_id |-> r.program_id, source_fund_type |-> r.source_fund_type,
   total_amount |-> r.total_amount]

\* validator tags of CreateDistributionItemInput
ValidateDistributionItem(it) ==
  (IF it.mustahiq_id = "" THEN {"MustahiqID:required"} ELSE {})
  \cup (IF it.amount = 0 THEN {"Amount:required"}
        ELSE IF it.amount <= 0 THEN {"Amount:gt"} ELSE {})

\* validator.Struct on CreateDistributionInput / UpdateDistributionInput
ValidateDistributionInput(in) ==
  (IF in.source_fund_type = "" THEN {"SourceFundType:required"}
   ELSE IF in.source_fund_type \notin SourceFundTypes
     THEN {"SourceFundType:oneof"} ELSE {})
  \cup ValidateItems(in.items)
  \cup (IF in.items = None THEN {}
        ELSE UNION {ValidateDistributionItem(Val(in.items)[i]) :
                      i \in 1..Len(Val(in.items))})

DistributionReq(op, in) ==
  [NoReq EXCEPT !.op = op, !.id = in.id, !.program_id = in.program_id,
                !.source_fund_type = in.source_fund_type, !.items = in.items]

\* DistributionUseCase.Create: validator.Struct, then on to the mustahiq loop
DistributionUseCaseCreate(p, in) ==
  /\ pc[p] = "idle"
  /\ in.id = 0
  /\ UNCHANGED <<storage, nextReceiptId, nextDistributionId>>
  /\ LET r == DistributionReq("DistributionCreate", in) IN
     IF ValidateDistributionInput(in) # {} THEN Finish(p, r, "validation")
     ELSE Goto(p, "check_mustahiq", [r EXCEPT !.idx = 1], NoTx)

\* DistributionUseCase.Update: validator.Struct and distributionRepo.FindByID
DistributionUseCaseUpdate(p, in, dbUp) ==
  /\ pc[p] = "idle"
  /\ in.id # 0
  /\ UNCHANGED <<storage, nextReceiptId, nextDistributionId>>
  /\ LET r == DistributionReq("DistributionUpdate", in) IN
     IF ValidateDistributionInput(in) # {} THEN Finish(p, r, "validation")
     ELSE IF ~(dbUp /\ in.id \in DOMAIN distributions)
       THEN Finish(p, r, "distribution not found")
     ELSE Goto(p, "check_mustahiq", [r EXCEPT !.idx = 1], NoTx)

\* one turn of "Verify all mustahiq exist": mustahiqRepo.FindByID of item idx;
\* after the last item the total is computed and the repository is called
DistributionUseCaseCheckMustahiq(p, dbUp) ==
  /\ pc[p] = "check_mustahiq" /\ IsDistributionOp(req[p].op)
  /\ UNCHANGED <<storage, nextReceiptId, nextDistributionId>>
  /\ LET items == Val(req[p].items)
         i == req[p].idx IN
     IF ~(dbUp /\ items[i].mustahiq_id \in mustahiq)
       THEN Finish(p, req[p], "mustahiq not found: " \o items[i].mustahiq_id)
     ELSE IF i < Len(items)
       THEN Goto(p, "check_mustahiq",
                 [req[p] EXCEPT !.idx = i + 1,
                                !.confirmed = @ \cup {items[i].mustahiq_id}], NoTx)
     ELSE Goto(p, IF req[p].op = "DistributionCreate"
                    THEN "insert_header" ELSE "update_header",
               [req[p] EXCEPT !.total_amount = SumAmounts(items), !.idx = 0,
                              !.confirmed = @ \cup {items[i].mustahiq_id}],
               NoTx)

\* the foreign key of distributions.program_id
ProgramMissing(r) == r.program_id # None /\ Val(r.program_id) \notin programs

\* Create going on to the items although the INSERT reported an error
DistributionRepoInsertHeaderIgnoresError(p) ==
  /\ pc[p] = "insert_header" /\ req[p].op = "DistributionCreate"
  /\ nextDistributionId <= MaxDistributions
  /\ UNCHANGED <<storage, nextReceiptId>>
  /\ nextDistributionId' = nextDistributionId + 1
  /\ Goto(p, "insert_items", [req[p] EXCEPT !.id = nextDistributionId, !.idx = 1],
          [NoTx EXCEPT !.open = TRUE, !.hdr = Some(DistributionHeader(req[p]))])

\* DistributionRepository.Create: Begin and INSERT INTO distributions
DistributionRepoInsertHeader(p) ==
  /\ pc[p] = "insert_header" /\ req[p].op = "DistributionCreate"
  /\ nextDistributionId <= MaxDistributions
  /\ UNCHANGED <<storage, nextReceiptId>>
  /\ IF ProgramMissing(req[p])
       THEN /\ Finish(p, req[p], "program or user not found")
            /\ UNCHANGED nextDistributionId
     ELSE /\ nextDistributionId' = nextDistributionId + 1
          /\ Goto(p, "insert_items",
                  [req[p] EXCEPT !.id = nextDistributionId, !.idx = 1],
                  [NoTx EXCEPT !.open = TRUE,
                               !.hdr = Some(DistributionHeader(req[p]))])

\* DistributionRepository.Update: Begin and UPDATE distributions
DistributionRepoUpdateHeader(p) ==
  /\ pc[p] = "update_header" /\ req[p].op = "DistributionUpdate"
  /\ ~RowLocked(p, DistributionOps, req[p].id)
  /\ UNCHANGED <<storage, nextReceiptId, nextDistributionId>>
  /\ IF req[p].id \notin DOMAIN distributions
       THEN Finish(p, req[p], "distribution not found")
     ELSE IF ProgramMissing(req[p])
       THEN Finish(p, req[p], "program not found")
     ELSE Goto(p, "delete_items", req[p],
               [NoTx EXCEPT !.open = TRUE,
                            !.hdr = Some(DistributionHeader(req[p]))])

\* DELETE FROM distribution_items WHERE distribution_id = $1
DistributionRepoDeleteItems(p) ==
  /\ pc[p] = "delete_items" /\ req[p].op = "DistributionUpdate"
  /\ Goto(p, "insert_items", [req[p] EXCEPT !.idx = 1],
          [tx[p] EXCEPT !.deleted = distributionItems[req[p].id]])
  /\ UNCHANGED <<storage, nextReceiptId, nextDistributionId>>

\* INSERT INTO distribution_items: the foreign key of mustahiq_id is checked
DistributionRepoInsertItem(p) ==
  /\ pc[p] = "insert_items" /\ IsDistributionOp(req[p].op)
  /\ req[p].idx <= Len(Val(req[p].items))
  /\ UNCHANGED <<storage, nextReceiptId, nextDistributionId>>
  /\ IF Val(req[p].items)[req[p].idx].mustahiq_id \notin mustahiq
       THEN Finish(p, req[p], "mustahiq not found")
     ELSE InsertItem(p, DistributionOps)

\* tx.Commit of DistributionRepository.Create / Update
DistributionRepoCommit(p) ==
  /\ pc[p] = "insert_items" /\ IsDistributionOp(req[p].op)
  /\ req[p].idx > Len(Val(req[p].items))
  /\ ApplyWrites(p)
  /\ Finish(p, req[p], "ok")
  /\ UNCHANGED <<master, nextReceiptId, nextDistributionId>>

\* DistributionUseCase.Delete: one DELETE statement, items go by CASCADE
DistributionDelete(p, id) ==
  /\ pc[p] = "idle"
  /\ ~RowLocked(p, DistributionOps, id)
  /\ IF id \in DOMAIN distributions
       THEN /\ distributions' = [d \in DOMAIN distributions \ {id} |-> distributions[d]]
            /\ distributionItems' = [distributionItems EXCEPT ![id] = <<>>]
            /\ Finish(p, [NoReq EXCEPT !.op = "DistributionDelete", !.id = id], "ok")
       ELSE /\ UNCHANGED distributionTables
            /\ Finish(p, [NoReq EXCEPT !.op = "DistributionDelete", !.id = id],
                      "distribution not found")
  /\ UNCHANGED <<master, receiptTables, nextReceiptId, nextDistributionId>>

\* a committed distribution item row references mustahiq b
MustahiqReferenced(b) ==
  \E d \in DistributionIds :
     \E i \in 1..Len(distributionItems[d]) : distributionItems[d][i].mustahiq_id = b

\* an open transaction has written (inserted or deleted) an item row of b
MustahiqRowsInFlight(p, b) ==
  \E q \in Procs \ {p} :
     /\ tx[q].open /\ IsDistributionOp(req[q].op)
     /\ \E i \in 1..Len(tx[q].inserted \o tx[q].deleted) :
           (tx[q].inserted \o tx[q].deleted)[i].mustahiq_id = b

\* the DELETE with no foreign key standing in its way
MustahiqDeleteUnrestricted(p, b) ==
  /\ pc[p] = "idle"
  /\ LET r == [NoReq EXCEPT !.op = "MustahiqDelete", !.muzakki_id = b] IN
     IF b \notin mustahiq
       THEN UNCHANGED mustahiq /\ Finish(p, r, "mustahiq not found")
     ELSE mustahiq' = mustahiq \ {b} /\ Finish(p, r, "ok")
  /\ UNCHANGED <<users, roleOf, statusOf, muzakki, programs, receiptTables, distributionTables,
                 nextReceiptId, nextDistributionId>>

\* MustahiqUseCase.Delete: DELETE FROM mustahiq, refused by the RESTRICT
\* foreign key of distribution_items while an item row references the row
MustahiqDelete(p, b) ==
  /\ pc[p] = "idle"
  /\ ~MustahiqRowsInFlight(p, b)
  /\ LET r == [NoReq EXCEPT !.op = "MustahiqDelete", !.muzakki_id = b] IN
     IF b \notin mustahiq
       THEN UNCHANGED mustahiq /\ Finish(p, r, "mustahiq not found")
     ELSE IF MustahiqReferenced(b)
       THEN UNCHANGED mustahiq /\ Finish(p, r, "storage error")
     ELSE mustahiq' = mustahiq \ {b} /\ Finish(p, r, "ok")
  /\ UNCHANGED <<users, roleOf, statusOf, muzakki, programs, receiptTables, distributionTables,
                 nextReceiptId, nextDistributionId>>

\* ------------------------------------------------- asnaf and mustahiq rows
MustahiqStatuses == {"active", "inactive", "pending"}

\* validator.Struct on CreateMustahiqInput (Status omitempty,oneof) and on
\* UpdateMustahiqInput, the one with an ID (Status required,oneof)
ValidateMustahiqInput(in) ==
  (IF in.asnaf_id = "" THEN {"AsnafID:required"} ELSE {})
  \cup (IF in.status = ""
          THEN IF "id" \in DOMAIN in THEN {"Status:required"} ELSE {}
        ELSE IF in.status \notin MustahiqStatuses THEN {"Status:oneof"}
        ELSE {})

\* MustahiqRepository.FindByID: the row, INNER JOINed with its asnaf row
MustahiqFound(b) == b \in mustahiq /\ asnafOf[b] \in asnaf

\* MustahiqUseCase.Create: validator.Struct, then INSERT INTO mustahiq; the
\* foreign key of asnafID is checked by the statement
MustahiqCreate(p, in) ==
  /\ pc[p] = "idle"
  /\ LET status == IF in.status = "" THEN "pending" ELSE in.status
         r == [NoReq EXCEPT !.op = "MustahiqCreate", !.asnaf_id = in.asnaf_id,
                            !.status = status] IN
     IF ValidateMustahiqInput(in) # {}
       THEN /\ UNCHANGED <<mustahiq, asnafOf, statusOf>>
            /\ Respond(p, [r EXCEPT !.status = in.status], "validation")
     ELSE IF in.asnaf_id \notin asnaf
       THEN /\ UNCHANGED <<mustahiq, asnafOf, statusOf>>
            /\ Respond(p, r, "asnaf tidak ditemukan")
     ELSE \E b \in MustahiqIds \ mustahiq :
             /\ mustahiq' = mustahiq \cup {b}
             /\ asnafOf' = [asnafOf EXCEPT ![b] = in.asnaf_id]
             /\ statusOf' = [statusOf EXCEPT ![b] = status]
             /\ Respond(p, [r EXCEPT !.mustahiq_id = b], "ok")
  /\ UNCHANGED <<users, roleOf, asnaf, muzakki, programs, receiptTables, distributionTables,
                 nextReceiptId, nextDistributionId>>

\* MustahiqUseCase.Update up to the call of mustahiqRepo.Update
MustahiqUseCaseUpdate(p, in) ==
  /\ pc[p] = "idle"
  /\ UNCHANGED <<storage, nextReceiptId, nextDistributionId>>
  /\ LET r == [NoReq EXCEPT !.op = "MustahiqUpdate", !.mustahiq_id = in.id,
                            !.asnaf_id = in.asnaf_id, !.status = in.status] IN
     IF ValidateMustahiqInput(in) # {} THEN Finish(p, r, "validation")
     ELSE IF ~MustahiqFound(in.id) THEN Finish(p, r, "no rows in result set")
     ELSE Goto(p, "update_mustahiq", r, NoTx)

\* the UPDATE that sets the row's asnafID whether or not the asnaf row exists
MustahiqRepoUpdateUnchecked(p) ==
  /\ pc[p] = "update_mustahiq" /\ req[p].op = "MustahiqUpdate"
  /\ IF req[p].mustahiq_id \notin mustahiq
       THEN UNCHANGED <<asnafOf, statusOf>>
            /\ Respond(p, req[p], "mustahiq not found")
     ELSE /\ asnafOf' = [asnafOf EXCEPT ![req[p].mustahiq_id] = req[p].asnaf_id]
          /\ statusOf' = [statusOf EXCEPT ![req[p].mustahiq_id] = req[p].status]
          /\ Respond(p, req[p], "ok")
  /\ UNCHANGED <<users, roleOf, asnaf, mustahiq, muzakki, programs, receiptTables,
                 distributionTables, nextReceiptId, nextDistributionId>>

\* MustahiqRepository.Update: UPDATE mustahiq SET ... asnafID = $4 WHERE id = $7
MustahiqRepoUpdate(p) ==
  /\ pc[p] = "update_mustahiq" /\ req[p].op = "MustahiqUpdate"
  /\ IF req[p].mustahiq_id \notin mustahiq
       THEN UNCHANGED <<asnafOf, statusOf>>
            /\ Respond(p, req[p], "mustahiq not found")
     ELSE IF req[p].asnaf_id \notin asnaf
       THEN UNCHANGED <<asnafOf, statusOf>>
            /\ Respond(p, req[p], "asnaf tidak ditemukan")
     ELSE /\ asnafOf' = [asnafOf EXCEPT ![req[p].mustahiq_id] = req[p].asnaf_id]
          /\ statusOf' = [statusOf EXCEPT ![req[p].mustahiq_id] = req[p].status]
          /\ Respond(p, req[p], "ok")
  /\ UNCHANGED <<users, roleOf, asnaf, mustahiq, muzakki, programs, receiptTables,
                 distributionTables, nextReceiptId, nextDistributionId>>

\* AsnafUseCase.Create: validator.Struct (Name required), then INSERT INTO asnaf
AsnafCreate(p, in) ==
  /\ pc[p] = "idle"
  /\ LET r == [NoReq EXCEPT !.op = "AsnafCreate", !.name = in.name] IN
     IF in.name = "" THEN UNCHANGED asnaf /\ Respond(p, r, "validation")
     ELSE \E a \in AsnafIds \ asnaf :
             /\ asnaf' = asnaf \cup {a}
             /\ Respond(p, [r EXCEPT !.asnaf_id = a], "ok")
  /\ UNCHANGED <<users, roleOf, statusOf, asnafOf, mustahiq, muzakki, programs, receiptTables,
                 distributionTables, nextReceiptId, nextDistributionId>>

\* a mustahiq row references asnaf a
AsnafReferenced(a) == \E b \in mustahiq : asnafOf[b] = a

\* the DELETE with no foreign key standing in its way
AsnafDeleteUnrestricted(p, a) ==
  /\ pc[p] = "idle"
  /\ LET r == [NoReq EXCEPT !.op = "AsnafDelete", !.asnaf_id = a] IN
     IF a \notin asnaf THEN UNCHANGED asnaf /\ Respond(p, r, "asnaf not found")
     ELSE asnaf' = asnaf \ {a} /\ Respond(p, r, "ok")
  /\ UNCHANGED <<users, roleOf, statusOf, asnafOf, mustahiq, muzakki, programs, receiptTables,
                 distributionTables, nextReceiptId, nextDistributionId>>

\* AsnafUseCase.Delete: DELETE FROM asnaf, refused by mustahiq.asnafID
\* (ON DELETE RESTRICT) while a mustahiq row references the row
AsnafDelete(p, a) ==
  /\ pc[p] = "idle"
  /\ LET r == [NoReq EXCEPT !.op = "AsnafDelete", !.asnaf_id = a] IN
     IF a \notin asnaf THEN UNCHANGED asnaf /\ Respond(p, r, "asnaf not found")
     ELSE IF AsnafReferenced(a)
       THEN UNCHANGED asnaf /\ Respond(p, r, "storage error")
     ELSE asnaf' = asnaf \ {a} /\ Respond(p, r, "ok")
  /\ UNCHANGED <<users, roleOf, statusOf, asnafOf, mustahiq, muzakki, programs, receiptTables,
                 distributionTables, nextReceiptId, nextDistributionId>>

\* a committed receipt header references muzakki m
MuzakkiReferenced(m) ==
  \E r \in DOMAIN receipts : receipts[r].muzakki_id = m

\* an open transaction has written a receipt header that references m, or is
\* replacing one that does
MuzakkiRowsInFlight(p, m) ==
  \E q \in Procs \ {p} :
     /\ tx[q].open /\ IsReceiptOp(req[q].op) /\ tx[q].hdr # None
     /\ \/ Val(tx[q].hdr).muzakki_id = m
        \/ req[q].id \in DOMAIN receipts /\ receipts[req[q].id].muzakki_id = m

\* MuzakkiUseCase.Delete: DELETE FROM muzakki, refused by the foreign key of
\* donation_receipts while a receipt references the row
MuzakkiDelete(p, m) ==
  /\ pc[p] = "idle"
  /\ ~MuzakkiRowsInFlight(p, m)
  /\ LET r == [NoReq EXCEPT !.op = "MuzakkiDelete", !.muzakki_id = m] IN
     IF m \notin muzakki
       THEN UNCHANGED muzakki /\ Finish(p, r, "muzakki not found")
     ELSE IF MuzakkiReferenced(m)
       THEN UNCHANGED muzakki /\ Finish(p, r, "storage error")
     ELSE muzakki' = muzakki \ {m} /\ Finish(p, r, "ok")
  /\ UNCHANGED <<users, roleOf, statusOf, mustahiq, programs, receiptTables, distributionTables,
                 nextReceiptId, nextDistributionId>>

\* a committed distribution header references program g
ProgramReferenced(g) ==
  \E d \in DOMAIN distributions : distributions[d].program_id = Some(g)

\* an open transaction has written a distribution header that references g,
\* or is replacing one that does
ProgramRowsInFlight(p, g) ==
  \E q \in Procs \ {p} :
     /\ tx[q].open /\ IsDistributionOp(req[q].op) /\ tx[q].hdr # None
     /\ \/ Val(tx[q].hdr).program_id = Some(g)
        \/ /\ req[q].id \in DOMAIN distributions
           /\ distributions[req[q].id].program_id = Some(g)

\* ProgramUseCase.Delete: DELETE FROM programs, refused by the RESTRICT
\* foreign key of distributions while a distribution references the row
ProgramDelete(p, g) ==
  /\ pc[p] = "idle"
  /\ ~ProgramRowsInFlight(p, g)
  /\ LET r == [NoReq EXCEPT !.op = "ProgramDelete", !.program_id = Some(g)] IN
     IF g \notin programs
       THEN UNCHANGED programs /\ Finish(p, r, "program not found")
     ELSE IF ProgramReferenced(g)
       THEN UNCHANGED programs /\ Finish(p, r, "storage error")
     ELSE programs' = programs \ {g} /\ Finish(p, r, "ok")
  /\ UNCHANGED <<users, roleOf, statusOf, muzakki, mustahiq, receiptTables, distributionTables,
                 nextReceiptId, nextDistributionId>>

\* statements under a context with no deadline: none is ever given up, so no
\* request is at a statement whose timer has fired
StatementNeverTimesOut(p) ==
  /\ pc[p] = "deadline_exceeded"
  /\ Finish(p, req[p], "storage error")
  /\ UNCHANGED <<storage, nextReceiptId, nextDistributionId>>

\* the statements run outside a transaction: what was written stays written
StatementFailsKeepsWrites(p) ==
  /\ pc[p] \in {"insert_header", "update_header", "delete_items", "insert_items"}
  /\ Finish(p, req[p], "storage error")
  /\ ApplyWrites(p)
  /\ UNCHANGED <<master, nextReceiptId, nextDistributionId>>

\* a statement of an open or starting transaction fails (timeout, connection
\* error): the repository returns the error and the deferred Rollback runs
StatementFails(p) ==
  /\ pc[p] \in {"insert_header", "update_header", "delete_items", "insert_items"}
  /\ Finish(p, req[p], "storage error")
  /\ UNCHANGED <<storage, nextReceiptId, nextDistributionId>>

\* the handler has written the response; the goroutine serves the next request
Return(p) ==
  /\ pc[p] = "done"
  /\ pc' = [pc EXCEPT ![p] = "idle"]
  /\ req' = [req EXCEPT ![p] = NoReq]
  /\ result' = [result EXCEPT ![p] = ""]
  /\ UNCHANGED <<storage, nextReceiptId, nextDistributionId, tx, workload,
                 tokens>>

\* what the Create/Update/Delete handlers write for the use case's answer:
\* response.BadRequest(c, err.Error(), nil) for every error
WriteResponse(op, res) ==
  [status |-> IF res # "ok" THEN 400
              ELSE IF op \in {"ReceiptCreate", "DistributionCreate"} THEN 201
              ELSE 200,
   message |-> res]

\* ------------------------------------------------------------------ inputs
ItemFitrah == [fund_type |-> "zakat", zakat_type |-> Some("fitrah"),
               person_count |-> Some(1), amount |-> 1]
ItemInfaq == [fund_type |-> "infaq", zakat_type |-> None,
              person_count |-> None, amount |-> 2]

ReceiptItemAt(i) == IF i % 2 = 1 THEN [ItemFitrah EXCEPT !.amount = i]
                               ELSE [ItemInfaq EXCEPT !.amount = i]
DistributionItemAt(i) == [mustahiq_id |-> IF i % 2 = 1 THEN "b1" ELSE "b2",
                          amount |-> i]

\* the item lists requests carry: the leading items of item 1, item 2, ...
ReceiptItemLists == {[k \in 1..n |-> ReceiptItemAt(k)] : n \in 1..MaxItems}
DistributionItemLists ==
  {[k \in 1..n |-> DistributionItemAt(k)] : n \in 1..MaxItems}

\* requests the validators and reference checks let through, and one request
\* for each way of being turned away
ReceiptInputs ==
  [id : {0} \cup ReceiptIds, muzakki_id : {"m1"}, receipt_number : {"R1", "R2"},
   items : {Some(s) : s \in ReceiptItemLists}]
  \cup [id : {0} \cup ReceiptIds, muzakki_id : {"m1"}, receipt_number : {"R1"},
        items : {None, Some(<<>>)}]
  \cup [id : {0} \cup ReceiptIds, muzakki_id : {"m0"}, receipt_number : {"R1"},
        items : {Some(<<ReceiptItemAt(1)>>)}]

DistributionInputs ==
  [id : {0} \cup DistributionIds, program_id : {None, Some("p1")},
   source_fund_type : {"infaq"},
   items : {Some(s) : s \in DistributionItemLists}]
  \cup [id : {0} \cup DistributionIds, program_id : {None},
        source_fund_type : {"infaq"}, items : {None, Some(<<>>)}]
  \cup [id : {0} \cup DistributionIds, program_id : {Some("p0")},
        source_fund_type : {"infaq"},
        items : {Some(<<DistributionItemAt(1)>>)}]

MustahiqCreateInputs == [asnaf_id : {""} \cup AsnafIds, status : {"active"}]
MustahiqUpdateInputs ==
  [id : MustahiqIds, asnaf_id : {""} \cup AsnafIds, status : {"active"}]
AsnafInputs == [name : {"", "fakir"}]

\* --------------------------------------------------------------- the system
Init ==
  /\ muzakki = MuzakkiIds
  /\ mustahiq = MustahiqIds
  /\ programs = ProgramIds
  /\ users = {1}
  /\ roleOf = [u \in UserIds |-> "admin"]
  /\ statusOf = [b \in MustahiqIds |-> "active"]
  /\ tokens = {}
  /\ asnaf = AsnafIds
  /\ asnafOf = [b \in MustahiqIds |-> "a1"]
  /\ receipts = <<>>
  /\ receiptItems = [id \in ReceiptIds |-> <<>>]
  /\ nextReceiptId = 1
  /\ distributions = <<>>
  /\ distributionItems = [id \in DistributionIds |-> <<>>]
  /\ nextDistributionId = 1
  /\ pc = [p \in Procs |-> "idle"]
  /\ req = [p \in Procs |-> NoReq]
  /\ tx = [p \in Procs |-> NoTx]
  /\ result = [p \in Procs |-> ""]
  /\ workload \in {"receipts", "distributions", "master"}

Next ==
  \E p \in Procs :
     \/ /\ workload = "receipts"
        /\ \E in \in ReceiptInputs, dbUp \in BOOLEAN : ReceiptUseCaseCreate(p, in, dbUp)
     \/ /\ workload = "receipts"
        /\ \E in \in ReceiptInputs, dbUp \in BOOLEAN : ReceiptUseCaseUpdate(p, in, dbUp)
     \/ /\ workload = "receipts"
        /\ \E id \in ReceiptIds : ReceiptDelete(p, id)
     \/ ReceiptRepoInsertHeader(p)
     \/ ReceiptRepoUpdateHeader(p)
     \/ ReceiptRepoDeleteItems(p)
     \/ ReceiptRepoInsertItem(p)
     \/ ReceiptRepoCommit(p)
     \/ /\ workload = "distributions"
        /\ \E in \in DistributionInputs : DistributionUseCaseCreate(p, in)
     \/ /\ workload = "distributions"
        /\ \E in \in DistributionInputs, dbUp \in BOOLEAN : DistributionUseCaseUpdate(p, in, dbUp)
     \/ /\ workload = "distributions"
        /\ \E id \in DistributionIds : DistributionDelete(p, id)
     \/ /\ workload \in {"distributions", "master"}
        /\ \E b \in MustahiqIds : MustahiqDelete(p, b)
     \/ /\ workload = "master"
        /\ \E in \in MustahiqCreateInputs : MustahiqCreate(p, in)
     \/ /\ workload = "master"
        /\ \E in \in MustahiqUpdateInputs : MustahiqUseCaseUpdate(p, in)
     \/ MustahiqRepoUpdate(p)
     \/ /\ workload = "master"
        /\ \E in \in AsnafInputs : AsnafCreate(p, in)
     \/ /\ workload = "master"
        /\ \E a \in AsnafIds : AsnafDelete(p, a)
     \/ /\ workload = "distributions"
        /\ \E g \in ProgramIds : ProgramDelete(p, g)
     \/ /\ workload = "receipts"
        /\ \E m \in MuzakkiIds : MuzakkiDelete(p, m)
     \/ \E dbUp \in BOOLEAN : DistributionUseCaseCheckMustahiq(p, dbUp)
     \/ DistributionRepoInsertHeader(p)
     \/ DistributionRepoUpdateHeader(p)
     \/ DistributionRepoDeleteItems(p)
     \/ DistributionRepoInsertItem(p)
     \/ DistributionRepoCommit(p)
     \/ StatementFails(p)
     \/ Return(p)

Spec == Init /\ [][Next]_vars

\* ------------------------------------------------- receipts, one at a time
\* Every shape of receipt item the validators tell apart is sent, by one
\* request at a time.
ReceiptItemShapes ==
  [fund_type : FundTypes, zakat_type : {None, Some(""), Some("fitrah"), Some("maal")},
   person_count : {None, Some(1)}, amount : {1}]
  \cup {[ItemInfaq EXCEPT !.fund_type = "wakaf"], [ItemInfaq EXCEPT !.amount = 0],
         [ItemFitrah EXCEPT !.person_count = Some(0)]}

\* an item of any shape at any place among items that pass
ShapedItemLists ==
  {[k \in 1..n |-> IF k = j THEN it ELSE ReceiptItemAt(k)] :
     n \in 1..MaxItems, j \in 1..MaxItems, it \in ReceiptItemShapes}

ShapedReceiptInputs ==
  [id : {0} \cup ReceiptIds, muzakki_id : {"m1"}, receipt_number : {"R1"},
   items : {Some(s) : s \in ShapedItemLists}]

InitSerial == Init /\ workload = "receipts"

NextSerial ==
  \/ \E in \in ShapedReceiptInputs, dbUp \in BOOLEAN : ReceiptUseCaseCreate(1, in, dbUp)
  \/ \E in \in ShapedReceiptInputs, dbUp \in BOOLEAN : ReceiptUseCaseUpdate(1, in, dbUp)
  \/ \E id \in ReceiptIds : ReceiptDelete(1, id)
  \/ ReceiptRepoInsertHeader(1)
  \/ ReceiptRepoUpdateHeader(1)
  \/ ReceiptRepoDeleteItems(1)
  \/ ReceiptRepoInsertItem(1)
  \/ ReceiptRepoCommit(1)
  \/ StatementFails(1)
  \/ Return(1)

SpecSerial == InitSerial /\ [][NextSerial]_vars

\* ------------------------------------------------------------------ reports
\* The Aggregation Reporter reads the committed rows.  Here a header row also
\* carries its receipt_date / distribution_date, which the use cases store as
\* the request gave it.  A DATE is <<month, day>> of one year; a filter that
\* is not sent ("" in Go) is <<>>.
MaxReportDistributions == 2   \* distributions the reported tables hold
ReportDistributionIds == 1..MaxReportDistributions
ReportDates == {<<2, 1>>, <<2, 2>>, <<10, 1>>}
ProgramName == [g \in ProgramIds |-> "Ramadhan"]

\* a <= b on DATE values
DateLE(a, b) == a[1] < b[1] \/ (a[1] = b[1] /\ a[2] <= b[2])

\* the optional conditions "..._date >= $1" and "..._date <= $2"
InRange(d, dateFrom, dateTo) ==
  /\ dateFrom = None \/ DateLE(Val(dateFrom), d)
  /\ dateTo = None \/ DateLE(d, Val(dateTo))

\* receipt_date::TEXT and TO_CHAR(receipt_date, 'YYYY-MM'): the digits of the
\* zero-padded month, and of the day for a daily period
PeriodText(d, groupBy) ==
  IF groupBy = "daily"
    THEN <<d[1] \div 10, d[1] % 10, d[2] \div 10, d[2] % 10>>
    ELSE <<d[1] \div 10, d[1] % 10>>

\* a <= b for sort keys compared position by position, as text is
RECURSIVE KeyLE(_, _)
KeyLE(a, b) ==
  IF a = <<>> THEN TRUE
  ELSE IF b = <<>> THEN FALSE
  ELSE IF a[1] # b[1] THEN a[1] < b[1]
  ELSE KeyLE(Tail(a), Tail(b))

\* ORDER BY: the orders in which a query may return the rows of S, each
\* [k |-> sort key, row |-> the columns]; rows of equal key come in any order
RECURSIVE SortedSeqs(_)
SortedSeqs(S) ==
  IF S = {} THEN {<<>>}
  ELSE UNION {{<<x.row>> \o t : t \in SortedSeqs(S \ {x})} :
                x \in {y \in S : \A z \in S : KeyLE(y.k, z.k)}}

\* SUM(amount) over a set of rows
RECURSIVE SumOf(_)
SumOf(S) ==
  IF S = {} THEN 0
  ELSE LET x == CHOOSE y \in S : TRUE IN x.amount + SumOf(S \ {x})

\* donation_receipts INNER JOIN donation_receipt_items with the date conditions
ReceiptItemRows(dateFrom, dateTo) ==
  UNION {{[receipt_id |-> id, idx |-> i,
           receipt_date |-> receipts[id].receipt_date,
           fund_type |-> receiptItems[id][i].fund_type,
           zakat_type |-> receiptItems[id][i].zakat_type,
           amount |-> receiptItems[id][i].amount] :
            i \in 1..Len(receiptItems[id])} :
         id \in {r \in DOMAIN receipts :
                   InRange(receipts[r].receipt_date, dateFrom, dateTo)}}

\* ---- income summary
\* one output row of the GROUP BY period: the four SUM(CASE ...) columns and
\* SUM(dri.amount)
IncomeSummaryRow(period, rows) ==
  [period |-> period,
   zakat_fitrah |-> SumOf({r \in rows : r.fund_type = "zakat"
                                        /\ r.zakat_type = Some("fitrah")}),
   zakat_maal |-> SumOf({r \in rows : r.fund_type = "zakat"
                                      /\ r.zakat_type = Some("maal")}),
   infaq |-> SumOf({r \in rows : r.fund_type = "infaq"}),
   sadaqah |-> SumOf({r \in rows : r.fund_type = "sadaqah"}),
   total |-> SumOf(rows)]

\* the query without its ORDER BY: rows come in whatever order the plan gives
ReportRepoGetIncomeSummaryUnordered(dateFrom, dateTo, groupBy) ==
  LET rows == ReceiptItemRows(dateFrom, dateTo)
      periods == {PeriodText(r.receipt_date, groupBy) : r \in rows}
  IN SortedSeqs({[k |-> <<>>,
                  row |-> IncomeSummaryRow(pd,
                            {r \in rows : PeriodText(r.receipt_date, groupBy) = pd})] :
                   pd \in periods})

\* ReportRepository.GetIncomeSummary: the result sets the query may return
ReportRepoGetIncomeSummary(dateFrom, dateTo, groupBy) ==
  LET rows == ReceiptItemRows(dateFrom, dateTo)
      periods == {PeriodText(r.receipt_date, groupBy) : r \in rows}
  IN SortedSeqs({[k |-> pd,
                  row |-> IncomeSummaryRow(pd,
                            {r \in rows : PeriodText(r.receipt_date, groupBy) = pd})] :
                   pd \in periods})

\* ---- fund balance
\* the CASE of the income CTE; no branch matches: NULL
Bucket(fundType, zakatType) ==
  IF fundType = "zakat" /\ zakatType = Some("fitrah") THEN Some("zakat_fitrah")
  ELSE IF fundType = "zakat" /\ zakatType = Some("maal") THEN Some("zakat_maal")
  ELSE IF fundType = "infaq" THEN Some("infaq")
  ELSE IF fundType = "sadaqah" THEN Some("sadaqah")
  ELSE None

\* WITH income AS (... GROUP BY dri.fund_type, dri.zakat_type)
IncomeCTE(dateFrom, dateTo) ==
  LET rows == ReceiptItemRows(dateFrom, dateTo)
      groups == {<<r.fund_type, r.zakat_type>> : r \in rows}
  IN {[group |-> g, fund_type |-> Bucket(g[1], g[2]),
       total_in |-> SumOf({r \in rows : <<r.fund_type, r.zakat_type>> = g})] :
        g \in groups}

\* outgoing AS (... GROUP BY d.source_fund_type)
OutgoingCTE(dateFrom, dateTo) ==
  LET rows == {[id |-> id, fund_type |-> distributions[id].source_fund_type,
                amount |-> distributions[id].total_amount] :
                 id \in {d \in DOMAIN distributions :
                           InRange(distributions[d].distribution_date, dateFrom, dateTo)}}
  IN {[fund_type |-> s, total_out |-> SumOf({r \in rows : r.fund_type = s})] :
        s \in {r.fund_type : r \in rows}}

\* the position of a bucket name in text order (ORDER BY aft.fund_type)
FundTypeRank == [infaq |-> 1, sadaqah |-> 2, zakat_fitrah |-> 3, zakat_maal |-> 4]

\* COALESCE(x, 0) of a joined row that may be the NULL row <<>>
TotalIn(i) == IF i = None THEN 0 ELSE Val(i).total_in
TotalOut(o) == IF o = None THEN 0 ELSE Val(o).total_out

\* a LEFT JOIN's right side for one left row: the matches, or one NULL row
LeftJoined(matches) == IF matches = {} THEN {None} ELSE {Some(m) : m \in matches}

\* the query with INNER JOINs: a bucket missing on either side drops out
ReportRepoGetFundBalanceInnerJoin(dateFrom, dateTo) ==
  SortedSeqs(
    UNION {{[k |-> <<FundTypeRank[aft]>>, join |-> <<i, o>>,
             row |-> [fund_type |-> aft, total_in |-> i.total_in,
                      total_out |-> o.total_out,
                      balance |-> i.total_in - o.total_out]] :
              i \in {x \in IncomeCTE(dateFrom, dateTo) : x.fund_type = Some(aft)},
              o \in {x \in OutgoingCTE(dateFrom, dateTo) : x.fund_type = aft}} :
           aft \in SourceFundTypes})

\* ReportRepository.GetFundBalance: the result sets the query may return
ReportRepoGetFundBalance(dateFrom, dateTo) ==
  SortedSeqs(
    UNION {{[k |-> <<FundTypeRank[aft]>>, join |-> <<i, o>>,
             row |-> [fund_type |-> aft, total_in |-> TotalIn(i),
                      total_out |-> TotalOut(o),
                      balance |-> TotalIn(i) - TotalOut(o)]] :
              i \in LeftJoined({x \in IncomeCTE(dateFrom, dateTo) :
                                  x.fund_type = Some(aft)}),
              o \in LeftJoined({x \in OutgoingCTE(dateFrom, dateTo) :
                                  x.fund_type = aft})} :
           aft \in SourceFundTypes})

\* ---- distribution summary by program
\* distributions LEFT JOIN programs INNER JOIN distribution_items with the
\* date and source_fund_type conditions; p.name is NULL without a program
DistributionItemRows(dateFrom, dateTo, sourceFundType) ==
  UNION {{[distribution_id |-> id, idx |-> i,
           program_name |->
             IF distributions[id].program_id # None
                /\ Val(distributions[id].program_id) \in programs
               THEN Some(ProgramName[Val(distributions[id].program_id)])
               ELSE None,
           source_fund_type |-> distributions[id].source_fund_type,
           mustahiq_id |-> distributionItems[id][i].mustahiq_id,
           amount |-> distributionItems[id][i].amount] :
            i \in 1..Len(distributionItems[id])} :
         id \in {d \in DOMAIN distributions :
                   /\ InRange(distributions[d].distribution_date, dateFrom, dateTo)
                   /\ sourceFundType \in {"", distributions[d].source_fund_type}}}

\* COALESCE(p.name, 'No Program')
ProgramNameOrNone(name) == IF name = None THEN "No Program" ELSE Val(name)

\* the query with COUNT(di.mustahiq_id) where the code has COUNT(DISTINCT ...)
ReportRepoGetDistributionSummaryByProgramCountAll(dateFrom, dateTo, sourceFundType) ==
  LET rows == DistributionItemRows(dateFrom, dateTo, sourceFundType)
      groups == {<<r.program_name, r.source_fund_type>> : r \in rows}
      Of(g) == {r \in rows : <<r.program_name, r.source_fund_type>> = g}
  IN SortedSeqs({[k |-> <<0 - SumOf(Of(g))>>,
                  row |-> [program_name |-> ProgramNameOrNone(g[1]),
                           source_fund_type |-> g[2],
                           beneficiary_count |-> Cardinality(Of(g)),
                           total_amount |-> SumOf(Of(g))]] : g \in groups})

\* ReportRepository.getDistributionSummaryByProgram:
\* GROUP BY p.name, d.source_fund_type ORDER BY total_amount DESC
ReportRepoGetDistributionSummaryByProgram(dateFrom, dateTo, sourceFundType) ==
  LET rows == DistributionItemRows(dateFrom, dateTo, sourceFundType)
      groups == {<<r.program_name, r.source_fund_type>> : r \in rows}
      Of(g) == {r \in rows : <<r.program_name, r.source_fund_type>> = g}
  IN SortedSeqs({[k |-> <<0 - SumOf(Of(g))>>,
                  row |-> [program_name |-> ProgramNameOrNone(g[1]),
                           source_fund_type |-> g[2],
                           beneficiary_count |->
                             Cardinality({r.mustahiq_id : r \in Of(g)}),
                           total_amount |-> SumOf(Of(g))]] : g \in groups})

\* ---- the report requests
ReportReq(op, q) ==
  [op |-> op, date_from |-> q.date_from, date_to |-> q.date_to,
   group_by |-> q.group_by, source_fund_type |-> q.source_fund_type]
Rows(rows) == [err |-> "", rows |-> rows]
Failed(err) == [err |-> err, rows |-> <<>>]

\* ReportHandler.GetIncomeSummary and ReportUseCase.GetIncomeSummary
ReportUseCaseGetIncomeSummary(p, q) ==
  /\ pc[p] = "idle"
  /\ UNCHANGED <<storage, nextReceiptId, nextDistributionId>>
  /\ LET r == ReportReq("GetIncomeSummary", q) IN
     IF q.group_by \notin {"", "daily", "monthly"}
       THEN Finish(p, r, Failed("group_by must be 'daily' or 'monthly'"))
     ELSE \E out \in ReportRepoGetIncomeSummary(q.date_from, q.date_to,
                       IF q.group_by = "" THEN "monthly" ELSE q.group_by) :
             Finish(p, r, Rows(out))

\* ReportHandler.GetDistributionSummary and ReportUseCase.GetDistributionSummary
\* for every group_by but "asnaf"
ReportUseCaseGetDistributionSummary(p, q) ==
  /\ pc[p] = "idle"
  /\ q.group_by # "asnaf"
  /\ UNCHANGED <<storage, nextReceiptId, nextDistributionId>>
  /\ LET r == ReportReq("GetDistributionSummary", q) IN
     IF q.group_by = ""
       THEN Finish(p, r, Failed("group_by parameter is required (asnaf or program)"))
     ELSE IF q.group_by # "program"
       THEN Finish(p, r, Failed("group_by must be 'asnaf' or 'program'"))
     ELSE IF q.source_fund_type \notin {""} \cup SourceFundTypes
       THEN Finish(p, r, Failed("source_fund_type must be one of: zakat_fitrah, zakat_maal, infaq, sadaqah"))
     ELSE \E out \in ReportRepoGetDistributionSummaryByProgram(
                       q.date_from, q.date_to, q.source_fund_type) :
             Finish(p, r, Rows(out))

\* ReportHandler.GetFundBalance and ReportUseCase.GetFundBalance
ReportUseCaseGetFundBalance(p, q) ==
  /\ pc[p] = "idle"
  /\ UNCHANGED <<storage, nextReceiptId, nextDistributionId>>
  /\ \E out \in ReportRepoGetFundBalance(q.date_from, q.date_to) :
        Finish(p, ReportReq("GetFundBalance", q), Rows(out))

\* ---- the reported tables and the queries
\* item lists of receipts the create use case accepts and stores
ReportReceiptItemLists ==
  {<<[ItemInfaq EXCEPT !.amount = 1]>>,
   <<[ItemInfaq EXCEPT !.amount = 1],
     [ItemInfaq EXCEPT !.zakat_type = Some("fitrah")]>>,
   <<ItemFitrah,
     [ItemFitrah EXCEPT !.zakat_type = Some("maal"), !.person_count = None,
                        !.amount = 2]>>,
   <<[ItemInfaq EXCEPT !.fund_type = "sadaqah", !.amount = 1],
     [ItemFitrah EXCEPT !.amount = 2]>>}

ReportReceiptInputs ==
  {in \in [id : {0}, muzakki_id : {"m1"}, receipt_number : {"R1", "R2"},
           receipt_date : ReportDates,
           items : {Some(s) : s \in ReportReceiptItemLists}] :
     ValidateReceiptInput(in) = {} /\ ~ZakatTypeMissing(Val(in.items))}

ReportDistributionInputs ==
  {in \in [id : {0}, program_id : {None, Some("p1")},
           source_fund_type : {"infaq", "zakat_fitrah"},
           distribution_date : ReportDates,
           items : {Some(<<DistributionItemAt(1)>>),
                    Some(<<DistributionItemAt(1), DistributionItemAt(2)>>)}] :
     ValidateDistributionInput(in) = {}}

\* the header rows DonationReceiptRepository.Create and
\* DistributionRepository.Create store for an accepted request
StoredReceipt(in) ==
  [muzakki_id |-> in.muzakki_id, receipt_number |-> in.receipt_number,
   total_amount |-> SumAmounts(Val(in.items)), receipt_date |-> in.receipt_date]
StoredDistribution(in) ==
  [program_id |-> in.program_id, source_fund_type |-> in.source_fund_type,
   total_amount |-> SumAmounts(Val(in.items)),
   distribution_date |-> in.distribution_date]

MaxReportHeaders == 2   \* receipts and distributions in the tables together

IncomeSummaryQueries ==
  [date_from : {None, Some(<<2, 2>>)}, date_to : {None, Some(<<2, 2>>)},
   group_by : {"", "daily", "monthly", "weekly"}, source_fund_type : {""}]
DistributionSummaryQueries ==
  [date_from : {None, Some(<<2, 2>>)}, date_to : {None, Some(<<2, 2>>)},
   group_by : {"", "program", "weekly"},
   source_fund_type : {"", "infaq", "zakat_fitrah", "wakaf"}]
FundBalanceQueries ==
  [date_from : {None, Some(<<2, 2>>)}, date_to : {None, Some(<<2, 2>>)},
   group_by : {""}, source_fund_type : {""}]

\* the tables after some accepted creates, receipt numbers all different
InitReports ==
  /\ muzakki = MuzakkiIds
  /\ mustahiq = MustahiqIds
  /\ programs = ProgramIds
  /\ users = {1}
  /\ roleOf = [u \in UserIds |-> "admin"]
  /\ statusOf = [b \in MustahiqIds |-> "active"]
  /\ tokens = {}
  /\ asnaf = AsnafIds
  /\ asnafOf = [b \in MustahiqIds |-> "a1"]
  /\ \E n \in 0..MaxReceipts, m \in 0..MaxReportDistributions :
        /\ n + m <= MaxReportHeaders
        /\ \E rs \in [1..n -> ReportReceiptInputs],
              ds \in [1..m -> ReportDistributionInputs] :
              /\ \A i \in 1..n : rs[i].receipt_number = <<"R1", "R2">>[i]
              /\ receipts = [id \in 1..n |-> StoredReceipt(rs[id])]
              /\ receiptItems = [id \in ReceiptIds |->
                                   IF id <= n THEN Val(rs[id].items) ELSE <<>>]
              /\ nextReceiptId = n + 1
              /\ distributions = [id \in 1..m |-> StoredDistribution(ds[id])]
              /\ distributionItems = [id \in ReportDistributionIds |->
                                        IF id <= m THEN Val(ds[id].items) ELSE <<>>]
              /\ nextDistributionId = m + 1
  /\ pc = [p \in Procs |-> "idle"]
  /\ req = [p \in Procs |-> NoReq]
  /\ tx = [p \in Procs |-> NoTx]
  /\ result = [p \in Procs |-> ""]
  /\ workload = "reports"

\* -------------------------------------------------------------------- lists
\* The FindAll operations: handler, use case and repository.  The COUNT and
\* the page query run against the same committed rows.  Rows of
\* donation_receipts, distributions and users are created at different
\* instants, so created_at orders them as their ids do.
DefaultPerPage == 10   \* the per_page a request without one gets
MaxPerPage == 100      \* the largest per_page UserUseCase.FindAll lets through
ListMuzakkiIds == {"m1", "m2"}
ListProgramIds == {"p1", "p2"}
ListEntities == {"muzakki", "asnaf", "mustahiq", "programs",
                 "donation_receipts", "distributions", "users"}

\* the numbers strconv.Atoi reads from the texts requests send
Numerals == ("-1" :> (0 - 1)) @@ ("0" :> 0) @@ ("1" :> 1) @@ ("2" :> 2)
            @@ ("3" :> 3) @@ ("10" :> 10) @@ ("100" :> 100) @@ ("101" :> 101)

\* n, _ := strconv.Atoi(s): 0 when s is not a number
Atoi(s) == IF s \in DOMAIN Numerals THEN Numerals[s] ELSE 0

\* strconv.Atoi(c.DefaultQuery(key, default)) for a parameter sent or not
QueryInt(raw, default) == Atoi(IF raw = None THEN default ELSE Val(raw))

\* Go's a / b on integers, b # 0: the quotient truncated toward zero
GoDiv(a, b) ==
  IF a >= 0 /\ b > 0 THEN a \div b
  ELSE IF a < 0 /\ b < 0 THEN (0 - a) \div (0 - b)
  ELSE IF a >= 0 THEN 0 - (a \div (0 - b))
  ELSE 0 - ((0 - a) \div b)

\* the rows a FindAll query matches without a filter, each with its ORDER BY
\* key: none for muzakki, asnaf, mustahiq and programs
ListTable(entity) ==
  CASE entity = "muzakki" -> {[k |-> <<>>, row |-> x] : x \in muzakki}
    [] entity = "asnaf" -> {[k |-> <<>>, row |-> x] : x \in asnaf}
    [] entity = "mustahiq" ->
         {[k |-> <<>>, row |-> x] : x \in {b \in mustahiq : asnafOf[b] \in asnaf}}
    [] entity = "programs" -> {[k |-> <<>>, row |-> x] : x \in programs}
    [] entity = "donation_receipts" ->
         {[k |-> <<0 - receipts[id].receipt_date[1],
                   0 - receipts[id].receipt_date[2], 0 - id>>, row |-> id] :
            id \in {r \in DOMAIN receipts : receipts[r].muzakki_id \in muzakki}}
    [] entity = "distributions" ->
         {[k |-> <<0 - distributions[id].distribution_date[1],
                   0 - distributions[id].distribution_date[2], 0 - id>>,
           row |-> id] : id \in DOMAIN distributions}
    [] entity = "users" -> {[k |-> <<0 - id>>, row |-> id] : id \in users}

\* rows offset+1 .. offset+limit of all, as LIMIT and OFFSET cut them out
Page(all, limit, offset) ==
  SubSeq(all, offset + 1,
         IF offset + limit < Len(all) THEN offset + limit ELSE Len(all))

\* the LIMIT and OFFSET a repository's FindAll appends (none for PerPage <= 0)
ListQuery(page, perPage) ==
  IF perPage > 0
    THEN [limit |-> Some(perPage), offset |-> Some((page - 1) * perPage)]
    ELSE [limit |-> None, offset |-> None]

\* FindAll of a repository: the (rows, total, err) it may return
RepoFindAll(entity, page, perPage) ==
  LET total == Cardinality(ListTable(entity))
      q == ListQuery(page, perPage)
  IN IF q.offset # None /\ Val(q.offset) < 0
       THEN {[err |-> "OFFSET must not be negative", rows |-> <<>>, total |-> 0,
              query |-> q]}
     ELSE {[err |-> "", total |-> total, query |-> q,
            rows |-> IF q.limit = None THEN all
                     ELSE Page(all, Val(q.limit), Val(q.offset))] :
             all \in SortedSeqs(ListTable(entity))}

\* UserUseCase.FindAll: page and perPage as handed to the repository
UserPage(page) == IF page < 1 THEN 1 ELSE page
UserPerPage(perPage) ==
  IF perPage < 1 \/ perPage > MaxPerPage THEN DefaultPerPage ELSE perPage

\* the response of a FindAll handler to what its use case returned
ListResponse(found, page, perPage) ==
  IF found.err # ""
    THEN [status |-> 500, err |-> found.err, rows |-> <<>>, total |-> 0,
          total_page |-> 0, page |-> page, per_page |-> perPage,
          query |-> found.query]
  ELSE IF perPage = 0
    THEN [status |-> 500, err |-> "integer divide by zero", rows |-> <<>>,
          total |-> 0, total_page |-> 0, page |-> page, per_page |-> perPage,
          query |-> found.query]
  ELSE [status |-> 200, err |-> "", rows |-> found.rows, total |-> found.total,
        total_page |-> GoDiv(found.total + perPage - 1, perPage),
        page |-> page, per_page |-> perPage, query |-> found.query]

\* the entity DistributionRepository.FindAll returns for a row: the
\* subquery's beneficiary_count is scanned into a local variable of the loop
\* and goes no further, and no item row is read, so Items stays nil
DistributionListEntity(id) ==
  [id |-> id, total_amount |-> distributions[id].total_amount, items |-> <<>>]

\* the items block of a list response; DistributionHandler.FindAll fills
\* beneficiary_count with len(d.Items)
ListItems(entity, rows) ==
  IF entity = "distributions"
    THEN [i \in 1..Len(rows) |->
            LET d == DistributionListEntity(rows[i]) IN
              [id |-> d.id, total_amount |-> d.total_amount,
               beneficiary_count |-> Len(d.items)]]
    ELSE [i \in 1..Len(rows) |-> [id |-> rows[i]]]

\* the FindAll handlers: parse page and per_page, call the use case, answer
\* with the items and the meta block
HandlerFindAll(p, q) ==
  /\ pc[p] = "idle"
  /\ UNCHANGED <<storage, nextReceiptId, nextDistributionId>>
  /\ LET page == QueryInt(q.page, "1")
         perPage == QueryInt(q.per_page, "10")
         r == [op |-> "FindAll", entity |-> workload, page |-> q.page,
               per_page |-> q.per_page]
     IN \E found \in IF workload = "users"
                       THEN RepoFindAll(workload, UserPage(page), UserPerPage(perPage))
                       ELSE RepoFindAll(workload, page, perPage) :
           Finish(p, r, [items |-> ListItems(workload, found.rows)]
                          @@ ListResponse(found, page, perPage))

\* ---- the receipt list with its filters
\* the rows the receipt list query yields without DISTINCT: one per joined
\* item row
ReceiptListTableAll(q) ==
  LET joined ==
        UNION {{[id |-> id, idx |-> i] :
                  i \in IF receiptItems[id] = <<>> THEN {0}
                        ELSE 1..Len(receiptItems[id])} :
                 id \in {r \in DOMAIN receipts : receipts[r].muzakki_id \in muzakki}}
      Matches(j) ==
        /\ q.date_from # None =>
              DateLE(Val(q.date_from), receipts[j.id].receipt_date)
        /\ q.fund_type # "" =>
              j.idx # 0 /\ receiptItems[j.id][j.idx].fund_type = q.fund_type
        /\ q.zakat_type # "" =>
              /\ j.idx # 0
              /\ receiptItems[j.id][j.idx].zakat_type = Some(q.zakat_type)
  IN {[k |-> <<0 - receipts[j.id].receipt_date[1],
               0 - receipts[j.id].receipt_date[2], 0 - j.id>>,
       row |-> j.id, idx |-> j.idx] : j \in {x \in joined : Matches(x)}}

\* DonationReceiptRepository.FindAll, FROM and WHERE: donation_receipts INNER
\* JOIN muzakki LEFT JOIN donation_receipt_items dri, one row per receipt
\* and item (one with NULL item columns for a receipt without items); the
\* conditions on dri.fund_type and dri.zakat_type apply to the same joined
\* row; SELECT DISTINCT dr.*, m.name keeps one row per receipt
ReceiptListTable(q) ==
  LET joined ==
        UNION {{[id |-> id, idx |-> i] :
                  i \in IF receiptItems[id] = <<>> THEN {0}
                        ELSE 1..Len(receiptItems[id])} :
                 id \in {r \in DOMAIN receipts : receipts[r].muzakki_id \in muzakki}}
      Matches(j) ==
        /\ q.date_from # None =>
              DateLE(Val(q.date_from), receipts[j.id].receipt_date)
        /\ q.fund_type # "" =>
              j.idx # 0 /\ receiptItems[j.id][j.idx].fund_type = q.fund_type
        /\ q.zakat_type # "" =>
              /\ j.idx # 0
              /\ receiptItems[j.id][j.idx].zakat_type = Some(q.zakat_type)
  IN {[k |-> <<0 - receipts[j.id].receipt_date[1],
               0 - receipts[j.id].receipt_date[2], 0 - j.id>>,
       row |-> j.id] : j \in {x \in joined : Matches(x)}}

\* DonationReceiptRepository.FindAll: COUNT(DISTINCT dr.id) and the page of
\* the DISTINCT rows, ORDER BY receipt_date DESC, created_at DESC
ReceiptRepoFindAll(q, page, perPage) ==
  LET table == ReceiptListTable(q)
      lq == ListQuery(page, perPage)
  IN IF lq.offset # None /\ Val(lq.offset) < 0
       THEN {[err |-> "OFFSET must not be negative", rows |-> <<>>, total |-> 0,
              query |-> lq]}
     ELSE {[err |-> "", total |-> Cardinality(table), query |-> lq,
            rows |-> IF lq.limit = None THEN all
                     ELSE Page(all, Val(lq.limit), Val(lq.offset))] :
             all \in SortedSeqs(table)}

\* DonationReceiptHandler.FindAll with the filters of the query string
ReceiptHandlerFindAll(p, q) ==
  /\ pc[p] = "idle"
  /\ UNCHANGED <<storage, nextReceiptId, nextDistributionId>>
  /\ LET page == QueryInt(q.page, "1")
         perPage == QueryInt(q.per_page, "10")
     IN \E found \in ReceiptRepoFindAll(q, page, perPage) :
           Finish(p, [op |-> "ReceiptFindAll"] @@ q,
                  [items |-> ListItems("donation_receipts", found.rows)]
                    @@ ListResponse(found, page, perPage))

NextReports ==
  \/ \E q \in IncomeSummaryQueries : ReportUseCaseGetIncomeSummary(1, q)
  \/ \E q \in DistributionSummaryQueries : ReportUseCaseGetDistributionSummary(1, q)
  \/ \E q \in FundBalanceQueries : ReportUseCaseGetFundBalance(1, q)
  \/ \E q \in [page : {None, Some("1"), Some("2")},
                per_page : {None, Some("1")},
                date_from : {None, Some(<<2, 2>>)},
                fund_type : {"", "zakat", "infaq", "sadaqah"},
                zakat_type : {"", "fitrah"}] : ReceiptHandlerFindAll(1, q)
  \/ Return(1)

SpecReports == InitReports /\ [][NextReports]_vars

ListQueries ==
  [page : {None, Some("abc"), Some("-1"), Some("0"), Some("1"), Some("2"),
           Some("3")},
   per_page : {None, Some("abc"), Some("-1"), Some("0"), Some("1"), Some("2"),
               Some("100"), Some("101")}]

\* the tables of the listed entity hold any rows; the other tables as in Init
InitLists ==
  /\ workload \in ListEntities
  /\ muzakki \in IF workload = "muzakki" THEN SUBSET ListMuzakkiIds
                                         ELSE {MuzakkiIds}
  /\ asnaf \in IF workload = "asnaf" THEN SUBSET AsnafIds ELSE {AsnafIds}
  /\ mustahiq \in IF workload = "mustahiq" THEN SUBSET MustahiqIds
                                           ELSE {MustahiqIds}
  /\ asnafOf = [b \in MustahiqIds |-> "a1"]
  /\ programs \in IF workload = "programs" THEN SUBSET ListProgramIds
                                           ELSE {ProgramIds}
  /\ users \in IF workload = "users" THEN {1..n : n \in 0..MaxUsers} ELSE {{1}}
  /\ roleOf = [u \in UserIds |-> "admin"]
  /\ statusOf = [b \in MustahiqIds |-> "active"]
  /\ tokens = {}
  /\ \E n \in 0..MaxReceipts, m \in 0..MaxReportDistributions :
        /\ workload = "donation_receipts" \/ n = 0
        /\ workload = "distributions" \/ m = 0
        /\ \E rs \in [1..n -> ReportReceiptInputs],
              ds \in [1..m -> ReportDistributionInputs] :
              /\ \A i \in 1..n :
                    /\ rs[i].receipt_number = <<"R1", "R2">>[i]
                    /\ Val(rs[i].items) = <<[ItemInfaq EXCEPT !.amount = 1]>>
              /\ \A i \in 1..m :
                    /\ ds[i].program_id = None
                    /\ ds[i].source_fund_type = "infaq"
                    /\ Val(ds[i].items) = <<DistributionItemAt(1)>>
              /\ receipts = [id \in 1..n |-> StoredReceipt(rs[id])]
              /\ receiptItems = [id \in ReceiptIds |->
                                   IF id <= n THEN Val(rs[id].items) ELSE <<>>]
              /\ nextReceiptId = n + 1
              /\ distributions = [id \in 1..m |-> StoredDistribution(ds[id])]
              /\ distributionItems = [id \in ReportDistributionIds |->
                                        IF id <= m THEN Val(ds[id].items) ELSE <<>>]
              /\ nextDistributionId = m + 1
  /\ pc = [p \in Procs |-> "idle"]
  /\ req = [p \in Procs |-> NoReq]
  /\ tx = [p \in Procs |-> NoTx]
  /\ result = [p \in Procs |-> ""]

NextLists ==
  \E p \in Procs :
     \/ \E q \in ListQueries : HandlerFindAll(p, q)
     \/ Return(p)

SpecLists == InitLists /\ [][NextLists]_vars

\* ------------------------------------------------- a storage that may stall
\* The header+items transactions when the database may stop answering: no
\* statement is sure to be answered, so the only steps that are sure to
\* happen are the ones the code's own timer brings about.  Every repository
\* method runs under context.WithTimeout(context.Background(), dbTimeout), so
\* a statement that is not answered returns an error when the timer fires
\* (StatementFails), and a FindByID of the use case returns either a row or
\* an error (DistributionUseCaseCheckMustahiq with dbUp or without).
StallReceiptInputs ==
  {in \in ReceiptInputs : in.id <= 1 /\ in.receipt_number = "R1"}
StallDistributionInputs ==
  {in \in DistributionInputs : in.program_id # Some("p1")}

InitStall == Init /\ workload \in {"receipts", "distributions"}

NextStall ==
  \E p \in Procs :
     \/ /\ workload = "receipts"
        /\ \E in \in StallReceiptInputs, dbUp \in BOOLEAN :
              ReceiptUseCaseCreate(p, in, dbUp)
     \/ /\ workload = "receipts"
        /\ \E in \in StallReceiptInputs, dbUp \in BOOLEAN :
              ReceiptUseCaseUpdate(p, in, dbUp)
     \/ /\ workload = "receipts"
        /\ ReceiptDelete(p, 1)
     \/ ReceiptRepoInsertHeader(p)
     \/ ReceiptRepoUpdateHeader(p)
     \/ ReceiptRepoDeleteItems(p)
     \/ ReceiptRepoInsertItem(p)
     \/ ReceiptRepoCommit(p)
     \/ /\ workload = "distributions"
        /\ \E in \in StallDistributionInputs : DistributionUseCaseCreate(p, in)
     \/ /\ workload = "distributions"
        /\ \E in \in StallDistributionInputs, dbUp \in BOOLEAN :
              DistributionUseCaseUpdate(p, in, dbUp)
     \/ /\ workload = "distributions"
        /\ DistributionDelete(p, 1)
     \/ \E dbUp \in BOOLEAN : DistributionUseCaseCheckMustahiq(p, dbUp)
     \/ DistributionRepoInsertHeader(p)
     \/ DistributionRepoUpdateHeader(p)
     \/ DistributionRepoDeleteItems(p)
     \/ DistributionRepoInsertItem(p)
     \/ DistributionRepoCommit(p)
     \/ StatementFails(p)
     \/ Return(p)

\* the timer of context.WithTimeout fires, and the goroutine of a request
\* goes on once a repository call has returned
TimeoutFires ==
  \A p \in Procs :
     /\ WF_vars(StatementFails(p))
     /\ WF_vars(\E dbUp \in BOOLEAN : DistributionUseCaseCheckMustahiq(p, dbUp))

SpecStall == InitStall /\ [][NextStall]_vars /\ TimeoutFires

\* --------------------------------------------------- the mustahiq requests
\* The JSON bodies of POST and PUT /api/v1/mustahiq, as far as asnafID and
\* status go (name, phoneNumber and address are present): a field that is
\* absent from the body is None and leaves the struct's field "".
MustahiqBodies ==
  [asnaf_id : {None, Some("a1")},
   status : {None, Some(""), Some("active"), Some("inactive"), Some("pending"),
             Some("deleted")}]

JSONString(field) == IF field = None THEN "" ELSE Val(field)

\* c.ShouldBindJSON on dto.CreateMustahiqRequest / dto.UpdateMustahiqRequest:
\* AsnafID binding:"required", Status binding:"required,oneof=..."
BindMustahiqRequest(body) ==
  (IF JSONString(body.asnaf_id) = "" THEN {"AsnafID:required"} ELSE {})
  \cup (IF JSONString(body.status) = "" THEN {"Status:required"}
        ELSE IF JSONString(body.status) \notin MustahiqStatuses
          THEN {"Status:oneof"}
        ELSE {})

\* MustahiqHandler.Create: bind the body, then MustahiqUseCase.Create
MustahiqHandlerCreate(p, body) ==
  IF BindMustahiqRequest(body) # {}
    THEN /\ pc[p] = "idle"
         /\ Finish(p, [NoReq EXCEPT !.op = "MustahiqCreate",
                                    !.asnaf_id = JSONString(body.asnaf_id),
                                    !.status = JSONString(body.status)],
                   "Validation failed")
         /\ UNCHANGED <<storage, nextReceiptId, nextDistributionId>>
  ELSE MustahiqCreate(p, [asnaf_id |-> JSONString(body.asnaf_id),
                          status |-> JSONString(body.status)])

\* MustahiqHandler.Update: bind the body, then MustahiqUseCase.Update
MustahiqHandlerUpdate(p, id, body) ==
  IF BindMustahiqRequest(body) # {}
    THEN /\ pc[p] = "idle"
         /\ Finish(p, [NoReq EXCEPT !.op = "MustahiqUpdate", !.mustahiq_id = id,
                                    !.asnaf_id = JSONString(body.asnaf_id),
                                    !.status = JSONString(body.status)],
                   "Validation failed")
         /\ UNCHANGED <<storage, nextReceiptId, nextDistributionId>>
  ELSE MustahiqUseCaseUpdate(p, [id |-> id,
                                 asnaf_id |-> JSONString(body.asnaf_id),
                                 status |-> JSONString(body.status)])

InitMustahiq == Init /\ workload = "master"

NextMustahiq ==
  \/ \E body \in MustahiqBodies : MustahiqHandlerCreate(1, body)
  \/ \E id \in MustahiqIds, body \in MustahiqBodies :
        MustahiqHandlerUpdate(1, id, body)
  \/ MustahiqRepoUpdate(1)
  \/ \E b \in MustahiqIds : MustahiqDelete(1, b)
  \/ Return(1)

SpecMustahiq == InitMustahiq /\ [][NextMustahiq]_vars

\* ------------------------------------------------------ users and tokens
\* Users 1..MaxAuthUsers are the accounts that register or sign in; user
\* MaxAuthUsers + 1 is an account whose row has been removed from the table.
\* Row 1 is the administrator the table is seeded with: no request creates a
\* user with a role other than viewer.  A token is what the token service
\* signed into it: its kind, the user id and the role.
Roles == {"admin", "staf", "viewer"}

AllTokens ==
  [kind : {"access", "refresh"}, user : 1..(MaxAuthUsers + 1), role : Roles]

\* TokenService.ValidateAccessToken / ValidateRefreshToken: the token is one
\* the service signed, of the kind asked for, and has not expired
ValidateToken(kind, t) == t # None /\ Val(t) \in tokens /\ Val(t).kind = kind

\* the routes before role gating: RequireAuth alone in front of every route
MiddlewareAuthOnly(t, allowed) ==
  IF ~ValidateToken("access", t) THEN "unauthorized" ELSE "next"

\* AuthMiddleware.RequireAuth followed by RequireRole(allowed...)
Middleware(t, allowed) ==
  IF ~ValidateToken("access", t) THEN "unauthorized"
  ELSE IF Val(t).role \notin allowed THEN "forbidden"
  ELSE "next"

\* the routes that write, the middleware in front of each, and the kind of
\* run that sends them
RouteTable ==
  [name : {"POST /muzakki", "PUT /muzakki", "POST /mustahiq", "PUT /mustahiq"},
   group : {"master"}, roles : {{"staf", "admin"}}]
  \cup [name : {"POST /donation-receipts", "PUT /donation-receipts"},
        group : {"receipts"}, roles : {{"staf", "admin"}}]
  \cup [name : {"POST /distributions", "PUT /distributions"},
        group : {"distributions"}, roles : {{"staf", "admin"}}]
  \cup [name : {"DELETE /muzakki", "DELETE /donation-receipts"},
        group : {"receipts"}, roles : {{"admin"}}]
  \cup [name : {"DELETE /programs", "DELETE /distributions"},
        group : {"distributions"}, roles : {{"admin"}}]
  \cup [name : {"DELETE /mustahiq", "POST /asnaf", "PUT /asnaf", "DELETE /asnaf",
                "POST /programs", "PUT /programs"},
        group : {"master"}, roles : {{"admin"}}]
  \cup [name : {"PUT /users/:id/role"}, group : {"auth"}, roles : {{"admin"}}]

AuthReq(op, user, t, role) ==
  [op |-> op, user |-> user, token |-> t, role |-> role]
AuthFailed(err) == [err |-> err, access |-> None, refresh |-> None]

\* GenerateAccessToken and GenerateRefreshToken for user u with u's stored
\* role, and the AuthTokens returned
SignIn(p, r, u) ==
  LET access == [kind |-> "access", user |-> u, role |-> roleOf'[u]]
      refresh == [kind |-> "refresh", user |-> u, role |-> roleOf'[u]]
  IN /\ Cardinality(tokens \cup {access, refresh}) <= MaxTokens
     /\ RespondIssuing(p, r, [err |-> "", access |-> Some(access),
                              refresh |-> Some(refresh)], {access, refresh})

\* AuthUseCase.Register for the e-mail address of account i
AuthRegister(p, i) ==
  /\ pc[p] = "idle"
  /\ UNCHANGED <<muzakki, mustahiq, programs, statusOf, asnaf, asnafOf,
                 receiptTables, distributionTables, nextReceiptId,
                 nextDistributionId>>
  /\ LET r == AuthReq("Register", i, None, "") IN
     IF i \in users
       THEN /\ UNCHANGED <<users, roleOf>>
            /\ RespondIssuing(p, r, AuthFailed("email sudah terdaftar"), {})
     ELSE /\ users' = users \cup {i}
          /\ roleOf' = [roleOf EXCEPT ![i] = "viewer"]
          /\ SignIn(p, r, i)

\* AuthUseCase.GoogleCallback (via = "callback") and GoogleMobileLogin
\* (via = "mobile") for the Google account of i: verified is Google's answer,
\* linked whether FindByGoogleID finds the row of i
AuthGoogle(p, via, i, verified, linked) ==
  /\ pc[p] = "idle"
  /\ UNCHANGED <<muzakki, mustahiq, programs, statusOf, asnaf, asnafOf,
                 receiptTables, distributionTables, nextReceiptId,
                 nextDistributionId>>
  /\ LET r == AuthReq(IF via = "callback" THEN "GoogleCallback"
                                         ELSE "GoogleMobileLogin", i, None, "")
     IN IF ~verified
          THEN /\ UNCHANGED <<users, roleOf>>
               /\ RespondIssuing(p, r, AuthFailed(IF via = "callback"
                                                    THEN "state tidak valid"
                                                    ELSE "invalid_google_token"),
                                 {})
        ELSE IF i \in users /\ linked
          THEN UNCHANGED <<users, roleOf>> /\ SignIn(p, r, i)
        ELSE IF i \in users
          THEN /\ UNCHANGED <<users, roleOf>>
               /\ RespondIssuing(p, r, AuthFailed("duplicate key"), {})
        ELSE /\ users' = users \cup {i}
             /\ roleOf' = [roleOf EXCEPT ![i] = "viewer"]
             /\ SignIn(p, r, i)

\* AuthUseCase.Login: matches says whether the row is found by e-mail and the
\* password fits
AuthLogin(p, i, matches) ==
  /\ pc[p] = "idle"
  /\ UNCHANGED <<storage, nextReceiptId, nextDistributionId>>
  /\ LET r == AuthReq("Login", i, None, "") IN
     IF ~(i \in users /\ matches)
       THEN RespondIssuing(p, r, AuthFailed("email atau password salah"), {})
     ELSE SignIn(p, r, i)

\* RefreshToken that signs the role of the refresh token into the new
\* access token instead of reading the user's row
AuthRefreshKeepsRole(p, t) ==
  /\ pc[p] = "idle"
  /\ UNCHANGED <<storage, nextReceiptId, nextDistributionId>>
  /\ LET r == AuthReq("RefreshToken", 0, t, "") IN
     IF ~ValidateToken("refresh", t)
       THEN RespondIssuing(p, r, AuthFailed("refresh token tidak valid"), {})
     ELSE LET access == [kind |-> "access", user |-> Val(t).user,
                         role |-> Val(t).role]
          IN /\ Cardinality(tokens \cup {access}) <= MaxTokens
             /\ RespondIssuing(p, [r EXCEPT !.user = Val(t).user],
                               [err |-> "", access |-> Some(access),
                                refresh |-> t], {access})

\* AuthUseCase.RefreshToken
AuthRefresh(p, t) ==
  /\ pc[p] = "idle"
  /\ UNCHANGED <<storage, nextReceiptId, nextDistributionId>>
  /\ LET r == AuthReq("RefreshToken", 0, t, "") IN
     IF ~ValidateToken("refresh", t)
       THEN RespondIssuing(p, r, AuthFailed("refresh token tidak valid"), {})
     ELSE IF Val(t).user \notin users
       THEN RespondIssuing(p, r, AuthFailed("user tidak ditemukan"), {})
     ELSE LET access == [kind |-> "access", user |-> Val(t).user,
                         role |-> roleOf[Val(t).user]]
          IN /\ Cardinality(tokens \cup {access}) <= MaxTokens
             /\ RespondIssuing(p, [r EXCEPT !.user = Val(t).user],
                               [err |-> "", access |-> Some(access),
                                refresh |-> t], {access})

\* UpdateRole without the check that the caller is not the target
UserUpdateRoleAllowsSelf(p, t, target, role) ==
  /\ pc[p] = "idle"
  /\ UNCHANGED <<muzakki, mustahiq, programs, users, statusOf, asnaf, asnafOf,
                 receiptTables, distributionTables, nextReceiptId,
                 nextDistributionId>>
  /\ LET r == AuthReq("UpdateRole", target, t, role) IN
     IF role \notin Roles
       THEN /\ UNCHANGED roleOf
            /\ RespondIssuing(p, r,
                 "invalid role, must be: admin, staf, or viewer", {})
     ELSE IF target \notin users
       THEN UNCHANGED roleOf /\ RespondIssuing(p, r, "user not found", {})
     ELSE /\ roleOf' = [roleOf EXCEPT ![target] = role]
          /\ RespondIssuing(p, r, "ok", {})

\* UserHandler.UpdateRole and UserUseCase.UpdateRole, t the caller's token
UserUpdateRole(p, t, target, role) ==
  /\ pc[p] = "idle"
  /\ UNCHANGED <<muzakki, mustahiq, programs, users, statusOf, asnaf, asnafOf,
                 receiptTables, distributionTables, nextReceiptId,
                 nextDistributionId>>
  /\ LET r == AuthReq("UpdateRole", target, t, role) IN
     IF role = ""
       THEN UNCHANGED roleOf /\ RespondIssuing(p, r, "role is required", {})
     ELSE IF role \notin Roles
       THEN /\ UNCHANGED roleOf
            /\ RespondIssuing(p, r,
                 "invalid role, must be: admin, staf, or viewer", {})
     ELSE IF target = Val(t).user
       THEN /\ UNCHANGED roleOf
            /\ RespondIssuing(p, r, "cannot change your own role", {})
     ELSE IF target \notin users
       THEN UNCHANGED roleOf /\ RespondIssuing(p, r, "user not found", {})
     ELSE /\ roleOf' = [roleOf EXCEPT ![target] = role]
          /\ RespondIssuing(p, r, "ok", {})

\* a request to a writing route: the middleware of the route, then its
\* handler.  (The handlers of POST and PUT /muzakki, PUT /asnaf and POST and
\* PUT /programs are not part of this model: those requests are followed as
\* far as the middleware turns them away.)
RouteRequest(p, t, route) ==
  IF Middleware(t, route.roles) # "next"
    THEN /\ pc[p] = "idle"
         /\ Finish(p, AuthReq(route.name, 0, t, ""), Middleware(t, route.roles))
         /\ UNCHANGED <<storage, nextReceiptId, nextDistributionId>>
  ELSE \/ /\ route.name = "POST /donation-receipts"
          /\ \E in \in StallReceiptInputs : ReceiptUseCaseCreate(p, in, TRUE)
       \/ /\ route.name = "PUT /donation-receipts"
          /\ \E in \in StallReceiptInputs : ReceiptUseCaseUpdate(p, in, TRUE)
       \/ /\ route.name = "DELETE /donation-receipts"
          /\ \E id \in ReceiptIds : ReceiptDelete(p, id)
       \/ /\ route.name = "DELETE /muzakki"
          /\ \E m \in MuzakkiIds : MuzakkiDelete(p, m)
       \/ /\ route.name = "POST /distributions"
          /\ \E in \in StallDistributionInputs : DistributionUseCaseCreate(p, in)
       \/ /\ route.name = "PUT /distributions"
          /\ \E in \in StallDistributionInputs :
                DistributionUseCaseUpdate(p, in, TRUE)
       \/ /\ route.name = "DELETE /distributions"
          /\ \E id \in DistributionIds : DistributionDelete(p, id)
       \/ /\ route.name = "DELETE /programs"
          /\ \E g \in ProgramIds : ProgramDelete(p, g)
       \/ /\ route.name = "POST /mustahiq"
          /\ \E body \in MustahiqBodies : MustahiqHandlerCreate(p, body)
       \/ /\ route.name = "PUT /mustahiq"
          /\ \E id \in MustahiqIds, body \in MustahiqBodies :
                MustahiqHandlerUpdate(p, id, body)
       \/ /\ route.name = "DELETE /mustahiq"
          /\ \E b \in MustahiqIds : MustahiqDelete(p, b)
       \/ /\ route.name = "POST /asnaf"
          /\ \E in \in AsnafInputs : AsnafCreate(p, in)
       \/ /\ route.name = "DELETE /asnaf"
          /\ \E a \in AsnafIds : AsnafDelete(p, a)
       \/ /\ route.name = "PUT /users/:id/role"
          /\ \E target \in 1..(MaxAuthUsers + 1),
                role \in Roles \cup {"", "staff"} :
                UserUpdateRole(p, t, target, role)

\* a run signs users in and manages their roles ("auth"), or sends requests
\* to the writing routes of one group of tables with tokens signed earlier
InitRoutes ==
  /\ muzakki = MuzakkiIds
  /\ mustahiq = MustahiqIds
  /\ programs = ProgramIds
  /\ asnaf = AsnafIds
  /\ asnafOf = [b \in MustahiqIds |-> "a1"]
  /\ statusOf = [b \in MustahiqIds |-> "active"]
  /\ receipts = <<>>
  /\ receiptItems = [id \in ReceiptIds |-> <<>>]
  /\ nextReceiptId = 1
  /\ distributions = <<>>
  /\ distributionItems = [id \in DistributionIds |-> <<>>]
  /\ nextDistributionId = 1
  /\ pc = [p \in Procs |-> "idle"]
  /\ req = [p \in Procs |-> NoReq]
  /\ tx = [p \in Procs |-> NoTx]
  /\ result = [p \in Procs |-> ""]
  /\ workload \in {"auth", "receipts", "distributions", "master"}
  /\ IF workload = "auth"
       THEN /\ users = {1}
            /\ roleOf = [u \in UserIds |-> IF u = 1 THEN "admin" ELSE "viewer"]
            /\ tokens \in {{}, {[kind |-> "refresh", user |-> MaxAuthUsers + 1,
                                 role |-> "viewer"]}}
     ELSE /\ users = 1..MaxAuthUsers
          /\ \E r \in {"staf", "viewer"} :
                roleOf = [u \in UserIds |-> IF u = 1 THEN "admin" ELSE r]
          /\ tokens = {[kind |-> "access", user |-> 1, role |-> "admin"],
                         [kind |-> "refresh", user |-> 1, role |-> "admin"],
                         [kind |-> "access", user |-> 2, role |-> "staf"],
                         [kind |-> "access", user |-> 2, role |-> "viewer"]}

NextRoutes ==
  \/ /\ workload = "auth"
     /\ \E i \in 1..MaxAuthUsers : AuthRegister(1, i)
  \/ /\ workload = "auth"
     /\ \E via \in {"callback", "mobile"}, i \in 1..MaxAuthUsers,
           verified \in BOOLEAN, linked \in BOOLEAN :
           AuthGoogle(1, via, i, verified, linked)
  \/ /\ workload = "auth"
     /\ \E i \in 1..MaxAuthUsers, matches \in BOOLEAN : AuthLogin(1, i, matches)
  \/ /\ workload = "auth"
     /\ \E t \in {None} \cup {Some(k) : k \in AllTokens} : AuthRefresh(1, t)
  \/ \E t \in {None} \cup {Some(k) : k \in AllTokens},
        route \in {x \in RouteTable : x.group = workload} :
        RouteRequest(1, t, route)
  \/ ReceiptRepoInsertHeader(1)
  \/ ReceiptRepoUpdateHeader(1)
  \/ ReceiptRepoDeleteItems(1)
  \/ ReceiptRepoInsertItem(1)
  \/ ReceiptRepoCommit(1)
  \/ DistributionUseCaseCheckMustahiq(1, TRUE)
  \/ DistributionRepoInsertHeader(1)
  \/ DistributionRepoUpdateHeader(1)
  \/ DistributionRepoDeleteItems(1)
  \/ DistributionRepoInsertItem(1)
  \/ DistributionRepoCommit(1)
  \/ MustahiqRepoUpdate(1)
  \/ StatementFails(1)
  \/ Return(1)

SpecRoutes == InitRoutes /\ [][NextRoutes]_vars

\* ==================================================================== claims
\* SUM(amount) over the rows of one header, as a query would compute it
RECURSIVE AmountOfRows(_, _)
AmountOfRows(rows, n) ==
  IF n = 0 THEN 0 ELSE rows[n].amount + AmountOfRows(rows, n - 1)

WriteOps == {"ReceiptCreate", "ReceiptUpdate", "DistributionCreate", "DistributionUpdate"}
UpdateOps == {"ReceiptUpdate", "DistributionUpdate"}

\* request p returns in this step
Returns(p) == pc[p] # "done" /\ pc'[p] = "done"
\* request p enters its use case in this step
Enters(p) == pc[p] = "idle" /\ pc'[p] # "idle"

\* C1: every persisted header's total_amount is the sum of the amounts of the
\* item rows persisted for it, for receipts and for distributions.
C1_TotalIsSumOfItems ==
  /\ \A id \in DOMAIN receipts :
        receipts[id].total_amount
          = AmountOfRows(receiptItems[id], Len(receiptItems[id]))
  /\ \A id \in DOMAIN distributions :
        distributions[id].total_amount
          = AmountOfRows(distributionItems[id], Len(distributionItems[id]))

\* an Update has just replaced a receipt's items by MaxItems items and the
\* header carries their sum
C1_Witness ==
  \E p \in Procs :
     /\ pc[p] = "done" /\ result[p] = "ok" /\ req[p].op = "ReceiptUpdate"
     /\ req[p].id \in DOMAIN receipts
     /\ Len(receiptItems[req[p].id]) = MaxItems
     /\ receipts[req[p].id].total_amount = (MaxItems * (MaxItems + 1)) \div 2

\* headers and item rows come in pairs: no header without item rows, no item
\* row whose header is gone
HeadersAndItemsPaired ==
  /\ \A id \in ReceiptIds :
        (id \in DOMAIN receipts) <=> (receiptItems[id] # <<>>)
  /\ \A id \in DistributionIds :
        (id \in DOMAIN distributions) <=> (distributionItems[id] # <<>>)

\* a request that returns an error has changed no table
FailureLeavesStorage ==
  \A p \in Procs : Returns(p) /\ result'[p] # "ok" => storage' = storage

\* C2: in every committed state each header has at least one item row and each
\* item row has its header, whatever the interleaving and whichever statement
\* fails; a request that fails leaves storage as it was.
C2_NoPartialWrite == []HeadersAndItemsPaired /\ [][FailureLeavesStorage]_vars

\* a Create failed after it had inserted its header and an item, and neither
\* the header nor the item is in storage
C2_Witness ==
  \E p \in Procs :
     /\ pc[p] = "done" /\ result[p] = "storage error"
     /\ req[p].op \in {"ReceiptCreate", "DistributionCreate"}
     /\ req[p].idx >= 2
     /\ req[p].op = "ReceiptCreate" =>
          req[p].id \notin DOMAIN receipts /\ receiptItems[req[p].id] = <<>>
     /\ req[p].op = "DistributionCreate" =>
          req[p].id \notin DOMAIN distributions
          /\ distributionItems[req[p].id] = <<>>

\* the rows and header an Update with request r leaves when it succeeds
UpdateTookEffect(r) ==
  LET L == Val(r.items) IN
  IF r.op = "ReceiptUpdate"
    THEN /\ receiptItems'[r.id] = L
         /\ receipts'[r.id] = [muzakki_id |-> r.muzakki_id,
                               receipt_number |-> r.receipt_number,
                               total_amount |-> AmountOfRows(L, Len(L))]
    ELSE /\ distributionItems'[r.id] = L
         /\ distributions'[r.id] = [program_id |-> r.program_id,
                                    source_fund_type |-> r.source_fund_type,
                                    total_amount |-> AmountOfRows(L, Len(L))]

UpdateReplacesOrKeeps ==
  \A p \in Procs :
     Returns(p) /\ req'[p].op \in UpdateOps =>
        IF result'[p] = "ok" THEN UpdateTookEffect(req'[p])
        ELSE storage' = storage

\* C3: a successful Update with item list L leaves exactly the rows L for the
\* header (none of the previous rows) and the header fields of the request;
\* an Update that fails leaves the header and its rows as they were.
C3_UpdateReplacesItems == [][UpdateReplacesOrKeeps]_vars

\* an Update has succeeded with one item, and that single row is what the
\* header owns
C3_Witness ==
  \E p \in Procs :
     /\ pc[p] = "done" /\ result[p] = "ok" /\ req[p].op = "ReceiptUpdate"
     /\ Len(Val(req[p].items)) = 1
     /\ receiptItems[req[p].id] = Val(req[p].items)
     /\ receipts[req[p].id].total_amount = Val(req[p].items)[1].amount

NoItems(r) == r.items = None \/ Val(r.items) = <<>>

EmptyListRejected ==
  \A p \in Procs :
     Enters(p) /\ req'[p].op \in WriteOps /\ NoItems(req'[p]) =>
        /\ pc'[p] = "done" /\ result'[p] \notin {"", "ok"}
        /\ storage' = storage

\* C4: Create and Update with an empty or missing item list return an error
\* and change no table.
C4_EmptyItemsRejected == [][EmptyListRejected]_vars

\* an Update of an existing receipt with an empty list was turned away
C4_Witness ==
  \E p \in Procs :
     /\ pc[p] = "done" /\ result[p] = "validation"
     /\ req[p].op = "ReceiptUpdate" /\ req[p].items = Some(<<>>)
     /\ req[p].id \in DOMAIN receipts

\* request r names a donor, a beneficiary or a program that has no row
DanglingReference(r) ==
  \/ /\ IsReceiptOp(r.op)
     /\ r.muzakki_id \notin muzakki
  \/ /\ IsDistributionOp(r.op)
     /\ \/ r.program_id # None /\ Val(r.program_id) \notin programs
        \/ /\ r.items # None
           /\ \E i \in 1..Len(Val(r.items)) :
                 Val(r.items)[i].mustahiq_id \notin mustahiq

MissingReferenceRejected ==
  \A p \in Procs :
     Returns(p) /\ DanglingReference(req'[p]) =>
        result'[p] # "ok" /\ storage' = storage

\* C5: a receipt Create/Update whose donor does not exist, and a distribution
\* Create/Update with a beneficiary or a supplied program that does not
\* exist, returns an error and changes no table.
C5_MissingReferenceRejected == [][MissingReferenceRejected]_vars

\* a distribution Create naming a program that has no row was turned away at
\* the header INSERT
C5_Witness ==
  \E p \in Procs :
     /\ pc[p] = "done" /\ req[p].op = "DistributionCreate"
     /\ req[p].program_id = Some("p0")
     /\ result[p] = "program or user not found"
     /\ distributions = <<>>

\* the foreign rows request r refers to
References(r) ==
  IF IsReceiptOp(r.op) THEN {r.muzakki_id}
  ELSE {Val(r.items)[i].mustahiq_id : i \in 1..Len(Val(r.items))}
       \cup (IF r.program_id = None THEN {} ELSE {Val(r.program_id)})

\* C6: when a Create or Update is about to issue its first mutating statement
\* (the header INSERT or UPDATE), every row it refers to - the donor, each
\* item's beneficiary, the program when one is supplied - has been looked up
\* and found.
C6_ReferencesConfirmedFirst ==
  \A p \in Procs :
     pc[p] \in {"insert_header", "update_header"} =>
        References(req[p]) \subseteq req[p].confirmed

\* an item of request r has fund_type zakat and no or an empty zakat_type
ZakatWithoutType(r) ==
  /\ r.items # None
  /\ \E i \in 1..Len(Val(r.items)) :
        /\ Val(r.items)[i].fund_type = "zakat"
        /\ Val(r.items)[i].zakat_type \in {None, Some("")}

\* request r carries infaq / sadaqah items only, none with a zakat_type
OnlyUntypedDonations(r) ==
  /\ r.items # None /\ Val(r.items) # <<>>
  /\ \A i \in 1..Len(Val(r.items)) :
        /\ Val(r.items)[i].fund_type \in {"infaq", "sadaqah"}
        /\ Val(r.items)[i].zakat_type = None
        /\ Val(r.items)[i].person_count = None
        /\ Val(r.items)[i].amount > 0

ZakatTypeRuleApplied ==
  \A p \in Procs :
     Enters(p) /\ IsReceiptOp(req'[p].op) =>
        /\ ZakatWithoutType(req'[p]) =>
             /\ pc'[p] = "done" /\ result'[p] \notin {"", "ok"}
             /\ storage' = storage
        /\ OnlyUntypedDonations(req'[p]) =>
             result'[p] \in {"", "muzakki not found", "donation receipt not found"}

\* C7: a receipt Create or Update with a zakat item whose zakat_type is absent
\* or empty is rejected at once and changes no table; one whose items are all
\* infaq or sadaqah without zakat_type passes the validator and the zakat_type
\* rule (it goes on to the repository unless a lookup finds no row).
C7_ZakatNeedsZakatType == [][ZakatTypeRuleApplied]_vars

\* an Update with a zakat item lacking zakat_type was rejected, and the receipt
\* it aimed at still holds the untyped infaq / sadaqah item accepted earlier
C7_Witness ==
  \E p \in Procs :
     /\ pc[p] = "done" /\ req[p].op = "ReceiptUpdate"
     /\ result[p] = "zakat_type is required when fund_type is zakat"
     /\ ZakatWithoutType(req[p])
     /\ req[p].id \in DOMAIN receipts
     /\ \E i \in 1..Len(receiptItems[req[p].id]) :
           /\ receiptItems[req[p].id][i].fund_type \in {"infaq", "sadaqah"}
           /\ receiptItems[req[p].id][i].zakat_type = None

\* C8: every persisted receipt item carries a zakat_type if and only if its
\* fund_type is zakat.
C8_ZakatTypeIffZakat ==
  \A id \in ReceiptIds :
     \A i \in 1..Len(receiptItems[id]) :
        (receiptItems[id][i].zakat_type # None)
          <=> (receiptItems[id][i].fund_type = "zakat")

\* an item of request r is zakat fitrah without a person_count
FitrahWithoutCount(r) ==
  /\ r.items # None
  /\ \E i \in 1..Len(Val(r.items)) :
        /\ Val(r.items)[i].fund_type = "zakat"
        /\ Val(r.items)[i].zakat_type = Some("fitrah")
        /\ Val(r.items)[i].person_count = None

FitrahWithoutCountRejected ==
  \A p \in Procs :
     Returns(p) /\ IsReceiptOp(req'[p].op) /\ FitrahWithoutCount(req'[p]) =>
        result'[p] # "ok" /\ storage' = storage

\* C9: a receipt Create or Update with a zakat fitrah item that has no
\* person_count returns an error and changes no table.
C9_FitrahNeedsPersonCount == [][FitrahWithoutCountRejected]_vars

ReceiptNumbersUnique ==
  \A a, b \in DOMAIN receipts :
     a # b => receipts[a].receipt_number # receipts[b].receipt_number

\* request p's header statement would give its number to a second receipt
WouldDuplicate(p) ==
  /\ \/ pc[p] = "insert_header" /\ req[p].op = "ReceiptCreate"
     \/ /\ pc[p] = "update_header" /\ req[p].op = "ReceiptUpdate"
        /\ req[p].id \in DOMAIN receipts
  /\ \E r \in DOMAIN receipts :
        /\ receipts[r].receipt_number = req[p].receipt_number
        /\ req[p].op = "ReceiptUpdate" => r # req[p].id

\* the header statement of a request that would duplicate a number ends the
\* request with the duplicate error (or with the statement's own failure),
\* and no request that would duplicate a number ever changes a table
DuplicateRejected ==
  \A p \in Procs :
     WouldDuplicate(p) /\ pc'[p] # pc[p] =>
        /\ pc'[p] = "done"
        /\ result'[p] \in {"receipt number already exists", "storage error"}
        /\ storage' = storage

\* C10: no two persisted receipts share a receipt_number, whatever the
\* interleaving of Creates and Updates; a Create or Update whose number
\* another receipt carries fails with 'receipt number already exists' and
\* leaves every table, the updated receipt's header and rows included, as it
\* was.
C10_ReceiptNumberUnique == []ReceiptNumbersUnique /\ [][DuplicateRejected]_vars

\* an Update that asked for the number of another receipt got the duplicate
\* error, while both receipts are persisted with different numbers
C10_Witness ==
  \E p \in Procs :
     /\ pc[p] = "done" /\ req[p].op = "ReceiptUpdate"
     /\ result[p] = "receipt number already exists"
     /\ req[p].id \in DOMAIN receipts
     /\ receipts[req[p].id].receipt_number # req[p].receipt_number
     /\ \E r \in DOMAIN receipts \ {req[p].id} :
           receipts[r].receipt_number = req[p].receipt_number

\* request p runs Delete of a beneficiary in this step
DeletesMustahiq(p) ==
  pc[p] = "idle" /\ pc'[p] = "done" /\ req'[p].op = "MustahiqDelete"

\* the distributions with an item row of beneficiary b
DistributionsOf(b) ==
  {d \in DistributionIds :
     \E i \in 1..Len(distributionItems[d]) :
        distributionItems[d][i].mustahiq_id = b}

RestrictOnMustahiq ==
  \A p \in Procs :
     DeletesMustahiq(p) /\ req'[p].muzakki_id \in mustahiq =>
        IF DistributionsOf(req'[p].muzakki_id) # {}
          THEN result'[p] # "ok" /\ storage' = storage
          ELSE /\ result'[p] = "ok"
               /\ mustahiq' = mustahiq \ {req'[p].muzakki_id}

\* C11: Delete of a beneficiary that a distribution item references returns an
\* error and changes no table; Delete of an existing beneficiary that no
\* distribution item references (any more) succeeds and removes the row.
C11_MustahiqDeleteRestricted == [][RestrictOnMustahiq]_vars

\* one Delete of b was refused while a distribution referenced b; after that
\* distribution was deleted a second Delete of the same b succeeded
C11_Witness ==
  \E p, q \in Procs :
     /\ pc[p] = "done" /\ req[p].op = "MustahiqDelete"
     /\ result[p] = "storage error"
     /\ pc[q] = "done" /\ req[q].op = "MustahiqDelete"
     /\ req[q].muzakki_id = req[p].muzakki_id
     /\ result[q] = "ok"
     /\ req[p].muzakki_id \notin mustahiq
     /\ distributions = <<>>

\* request p runs Delete of a category in this step
DeletesAsnaf(p) ==
  pc[p] = "idle" /\ pc'[p] = "done" /\ req'[p].op = "AsnafDelete"

\* the beneficiaries of category a
MustahiqOf(a) == {b \in mustahiq : asnafOf[b] = a}

RestrictOnAsnaf ==
  \A p \in Procs :
     DeletesAsnaf(p) /\ MustahiqOf(req'[p].asnaf_id) # {} =>
        result'[p] # "ok" /\ storage' = storage

EveryMustahiqHasAsnaf == \A b \in mustahiq : asnafOf[b] \in asnaf

\* C12: Delete of a category that a beneficiary references returns an error
\* and changes no table; in every state every beneficiary's category is an
\* existing category.
C12_AsnafDeleteRestricted == []EveryMustahiqHasAsnaf /\ [][RestrictOnAsnaf]_vars

\* a Delete of a category was refused while a beneficiary references it, and
\* the other category has been deleted
C12_Witness ==
  \E p \in Procs :
     /\ pc[p] = "done" /\ req[p].op = "AsnafDelete"
     /\ result[p] = "storage error"
     /\ req[p].asnaf_id \in asnaf
     /\ MustahiqOf(req[p].asnaf_id) # {}
     /\ asnaf # AsnafIds

\* ---- reports
ReportBuckets == {"zakat_fitrah", "zakat_maal", "infaq", "sadaqah"}

\* request p has returned the rows of report op
Reported(p, op) == pc[p] = "done" /\ req[p].op = op /\ result[p].err = ""

\* date d lies in the range request p asked for
InRequestedRange(p, d) ==
  /\ req[p].date_from = None \/ ~DateLE(d, Val(req[p].date_from))
                             \/ d = Val(req[p].date_from)
  /\ req[p].date_to = None \/ DateLE(d, Val(req[p].date_to))

ReceiptsInRange(p) ==
  {id \in DOMAIN receipts : InRequestedRange(p, receipts[id].receipt_date)}
DistributionsInRange(p) ==
  {id \in DOMAIN distributions :
     InRequestedRange(p, distributions[id].distribution_date)}

\* C13: a fund-balance report never omits one of the four buckets, and over a
\* date range without receipts and without distributions it is exactly the
\* four buckets, each with total_in = 0, total_out = 0 and balance = 0.
C13_EmptyRangeAllBucketsZero ==
  \A p \in Procs :
     Reported(p, "GetFundBalance") =>
       LET rows == result[p].rows IN
         /\ {rows[i].fund_type : i \in DOMAIN rows} = ReportBuckets
         /\ (ReceiptsInRange(p) = {} /\ DistributionsInRange(p) = {}) =>
              /\ Len(rows) = 4
              /\ \A i \in DOMAIN rows :
                    rows[i].total_in = 0 /\ rows[i].total_out = 0
                    /\ rows[i].balance = 0

\* a fund-balance report over a range that leaves out every stored receipt and
\* distribution has returned
C13_Witness ==
  \E p \in Procs :
     /\ Reported(p, "GetFundBalance")
     /\ DOMAIN receipts # {} /\ DOMAIN distributions # {}
     /\ ReceiptsInRange(p) = {} /\ DistributionsInRange(p) = {}
     /\ Len(result[p].rows) = 4

\* item it is mapped to bucket b: zakat+fitrah, zakat+maal, infaq, sadaqah
MapsToBucket(it, b) ==
  \/ b = "zakat_fitrah" /\ it.fund_type = "zakat" /\ it.zakat_type = Some("fitrah")
  \/ b = "zakat_maal" /\ it.fund_type = "zakat" /\ it.zakat_type = Some("maal")
  \/ b = "infaq" /\ it.fund_type = "infaq"
  \/ b = "sadaqah" /\ it.fund_type = "sadaqah"

\* the amounts of the first n of rows that are mapped to bucket b
RECURSIVE AmountInBucket(_, _, _)
AmountInBucket(rows, n, b) ==
  IF n = 0 THEN 0
  ELSE (IF MapsToBucket(rows[n], b) THEN rows[n].amount ELSE 0)
       + AmountInBucket(rows, n - 1, b)

\* inflow of bucket b from receipts 1..id dated in the range p asked for
RECURSIVE InflowOf(_, _, _)
InflowOf(p, b, id) ==
  IF id = 0 THEN 0
  ELSE (IF id \in ReceiptsInRange(p)
          THEN AmountInBucket(receiptItems[id], Len(receiptItems[id]), b) ELSE 0)
       + InflowOf(p, b, id - 1)

\* outflow of bucket b from distributions 1..id dated in the range p asked for
RECURSIVE OutflowOf(_, _, _)
OutflowOf(p, b, id) ==
  IF id = 0 THEN 0
  ELSE (IF id \in DistributionsInRange(p) /\ distributions[id].source_fund_type = b
          THEN distributions[id].total_amount ELSE 0)
       + OutflowOf(p, b, id - 1)

\* C14: a fund-balance report has exactly one row for each of the four
\* buckets; its total_in is the sum of the amounts of the receipt items mapped
\* to the bucket whose receipt is dated in range, its total_out the sum of
\* total_amount of the distributions of that source_fund_type dated in range,
\* and its balance total_in - total_out.
C14_FundBalanceExact ==
  \A p \in Procs :
     Reported(p, "GetFundBalance") =>
       LET rows == result[p].rows IN
         /\ Len(rows) = 4
         /\ \A b \in ReportBuckets :
               \E i \in DOMAIN rows :
                  /\ rows[i].fund_type = b
                  /\ rows[i].total_in = InflowOf(p, b, MaxReceipts)
                  /\ rows[i].total_out = OutflowOf(p, b, MaxReportDistributions)
                  /\ rows[i].balance = rows[i].total_in - rows[i].total_out

\* the calendar period of date d: the day, or the month for a monthly summary
CalendarPeriod(d, groupBy) == IF groupBy = "daily" THEN d ELSE <<d[1]>>

\* the calendar period a period text names: "MM-DD" or "MM" read as numbers
PeriodOfText(t) ==
  IF Len(t) = 4 THEN <<10 * t[1] + t[2], 10 * t[3] + t[4]>>
  ELSE <<10 * t[1] + t[2]>>

\* calendar period a is before b
PeriodBefore(a, b) ==
  a[1] < b[1] \/ (a[1] = b[1] /\ Len(a) = 2 /\ a[2] < b[2])

\* the grouping an income summary request selects
SelectedGrouping(p) == IF req[p].group_by = "daily" THEN "daily" ELSE "monthly"

\* the amounts of all items of receipts 1..id dated in p's range and in period cp
RECURSIVE PeriodAmount(_, _, _)
PeriodAmount(p, cp, id) ==
  IF id = 0 THEN 0
  ELSE (IF id \in ReceiptsInRange(p)
           /\ CalendarPeriod(receipts[id].receipt_date, SelectedGrouping(p)) = cp
          THEN AmountOfRows(receiptItems[id], Len(receiptItems[id])) ELSE 0)
       + PeriodAmount(p, cp, id - 1)

\* C15: an income summary has exactly one row per calendar period (day or
\* month, as selected) holding a receipt item in range, in ascending period
\* order, and in each row total = zakat_fitrah + zakat_maal + infaq + sadaqah
\* = the sum of all item amounts of that period.
C15_IncomeSummaryPerPeriod ==
  \A p \in Procs :
     Reported(p, "GetIncomeSummary") =>
       LET rows == result[p].rows IN
         /\ {PeriodOfText(rows[i].period) : i \in DOMAIN rows}
              = {CalendarPeriod(receipts[id].receipt_date, SelectedGrouping(p)) :
                   id \in {r \in ReceiptsInRange(p) : Len(receiptItems[r]) > 0}}
         /\ \A i \in DOMAIN rows, j \in DOMAIN rows :
               i < j => PeriodBefore(PeriodOfText(rows[i].period),
                                     PeriodOfText(rows[j].period))
         /\ \A i \in DOMAIN rows :
               /\ rows[i].total = rows[i].zakat_fitrah + rows[i].zakat_maal
                                  + rows[i].infaq + rows[i].sadaqah
               /\ rows[i].total
                    = PeriodAmount(p, PeriodOfText(rows[i].period), MaxReceipts)

\* an income summary of two periods has returned, the later receipt stored first
C15_Witness ==
  \E p \in Procs :
     /\ Reported(p, "GetIncomeSummary")
     /\ Len(result[p].rows) = 2
     /\ result[p].rows[1].total > 0
     /\ DOMAIN receipts = {1, 2}
     /\ PeriodBefore(receipts[2].receipt_date, receipts[1].receipt_date)

\* the distributions that match the filters of summary request p
MatchingDistributions(p) ==
  {id \in DistributionsInRange(p) :
     /\ Len(distributionItems[id]) > 0
     /\ req[p].source_fund_type \in {"", distributions[id].source_fund_type}}

\* the program a distribution is shown under
ProgramLabel(id) ==
  IF distributions[id].program_id = None THEN "No Program"
  ELSE ProgramName[Val(distributions[id].program_id)]

\* the item amounts of those of distributions 1..id that are in G
RECURSIVE GroupAmount(_, _)
GroupAmount(G, id) ==
  IF id = 0 THEN 0
  ELSE (IF id \in G
          THEN AmountOfRows(distributionItems[id], Len(distributionItems[id]))
          ELSE 0)
       + GroupAmount(G, id - 1)

\* the beneficiaries named by the items of the distributions in G
Beneficiaries(G) ==
  UNION {{distributionItems[id][i].mustahiq_id : i \in 1..Len(distributionItems[id])} :
           id \in G}

\* rows are ordered by total_amount descending
TotalDescending(rows) ==
  \A i \in DOMAIN rows, j \in DOMAIN rows :
     i < j => rows[i].total_amount >= rows[j].total_amount

Listed(p) == pc[p] = "done" /\ req[p].op = "FindAll"

\* the page and the page size request p asked for
AskedPage(p) == QueryInt(req[p].page, "1")
AskedPerPage(p) == QueryInt(req[p].per_page, "10")

\* the number of rows of the listed table
ListedRows ==
  CASE workload = "muzakki" -> Cardinality(muzakki)
    [] workload = "asnaf" -> Cardinality(asnaf)
    [] workload = "mustahiq" -> Cardinality(mustahiq)
    [] workload = "programs" -> Cardinality(programs)
    [] workload = "donation_receipts" -> Cardinality(DOMAIN receipts)
    [] workload = "distributions" -> Cardinality(DOMAIN distributions)
    [] workload = "users" -> Cardinality(users)
    [] OTHER -> 0

\* the rows page pg of size s holds when T rows match
RowsOnPage(T, pg, s) ==
  LET left == IF T - (pg - 1) * s > 0 THEN T - (pg - 1) * s ELSE 0
  IN IF s < left THEN s ELSE left

\* ceil(T / s)
PagesFor(T, s) == CHOOSE n \in 0..T : n * s >= T /\ (n = 0 \/ (n - 1) * s < T)

\* C17: a list operation asked for page pg >= 1 of size s >= 1 over T matching
\* rows returns min(s, max(0, T - (pg-1)*s)) rows, reports total = T and
\* total_page = ceil(T / s).
C17_PageRowCount ==
  \A p \in Procs :
     (Listed(p) /\ AskedPage(p) >= 1 /\ AskedPerPage(p) >= 1) =>
        /\ result[p].status = 200
        /\ Len(result[p].rows) = RowsOnPage(ListedRows, AskedPage(p), AskedPerPage(p))
        /\ result[p].total = ListedRows
        /\ result[p].total_page = PagesFor(ListedRows, AskedPerPage(p))

\* C18: whatever page and per_page a list request carries (missing, not a
\* number, zero, negative, above 100), its query runs with a page size of 1
\* to 100 (10 when missing) and a page >= 1 (1 when missing): the offset is
\* never negative and at most 100 rows are returned.
C18_PageAndSizeClamped ==
  \A p \in Procs :
     Listed(p) =>
        /\ result[p].query.limit # None
        /\ Val(result[p].query.limit) \in 1..100
        /\ Val(result[p].query.offset) >= 0
        /\ req[p].per_page = None => Val(result[p].query.limit) = 10
        /\ req[p].page = None => Val(result[p].query.offset) = 0
        /\ Len(result[p].rows) <= 100

\* C19: two list requests with the same page and page size, answered over the
\* same stored rows, return the same rows in the same order and the same
\* total.
C19_ListIdempotent ==
  \A p \in Procs, q \in Procs :
     (/\ Listed(p) /\ Listed(q)
      /\ req[p].page = req[q].page /\ req[p].per_page = req[q].per_page
      /\ result[p].status = 200 /\ result[q].status = 200) =>
        /\ result[p].rows = result[q].rows
        /\ result[p].total = result[q].total

\* ---- error categories
\* C20: the response to a failing create, update or delete names a stable
\* error category, a transient storage failure being told apart from
\* validation, reference, conflict and not-found failures: a response in the
\* reference or not-found category is given only when the row it names is
\* missing, and a failure of the storage is never reported as one.
C20_TransientFailureDistinguishable ==
  [][\A p \in Procs :
       (Returns(p) /\ IsReceiptOp(req'[p].op)) =>
          LET resp == WriteResponse(req'[p].op, result'[p]) IN
            /\ resp.message = "muzakki not found"
                 => req'[p].muzakki_id \notin muzakki
            /\ resp.message = "donation receipt not found"
                 => req'[p].id \notin DOMAIN receipts]_vars

\* ---- C21
\* a request is inside its use case or its transaction
InFlight(p) == pc[p] \notin {"idle", "done"}

\* no transaction is open for a request that has returned or not yet begun
NoTransactionLeftOpen == \A p \in Procs : ~InFlight(p) => ~tx[p].open

\* a transaction that ends on an error leaves every table as it was
FailedTransactionRolledBack ==
  \A p \in Procs :
     (tx[p].open /\ Returns(p) /\ result'[p] # "ok") =>
        /\ storage' = storage
        /\ ~tx'[p].open

\* C21: every request that has entered a storage operation or a header+items
\* transaction returns a result or an error although no statement is sure to
\* be answered; a transaction that ends on an error is rolled back; no
\* transaction is open once its request has returned.
C21_StalledStorageTerminates ==
  /\ \A p \in Procs : InFlight(p) ~> (pc[p] = "done" /\ result[p] # "")
  /\ []NoTransactionLeftOpen
  /\ [][FailedTransactionRolledBack]_vars

\* an Update gave up after its DELETE and its first INSERT: it has returned
\* the error, its transaction is closed and the rows it replaced are there
C21_Witness ==
  \E p \in Procs :
     /\ pc[p] = "done" /\ result[p] = "storage error"
     /\ req[p].op \in UpdateOps /\ req[p].idx >= 2
     /\ ~tx[p].open
     /\ req[p].op = "ReceiptUpdate" =>
          req[p].id \in DOMAIN receipts /\ receiptItems[req[p].id] # <<>>
     /\ req[p].op = "DistributionUpdate" =>
          req[p].id \in DOMAIN distributions
          /\ distributionItems[req[p].id] # <<>>

\* ---- C22
\* C22: a create request that supplies no status (and is otherwise accepted)
\* succeeds and persists the new row with status pending; every persisted
\* mustahiq row's status is one of active, inactive, pending.
C22_CreateDefaultsToPending ==
  /\ [](\A b \in mustahiq : statusOf[b] \in MustahiqStatuses)
  /\ [][\A body \in MustahiqBodies :
          (/\ body.status = None
           /\ body.asnaf_id # None /\ Val(body.asnaf_id) \in asnaf
           /\ MustahiqHandlerCreate(1, body))
          => /\ result'[1] = "ok"
             /\ \E b \in mustahiq' \ mustahiq : statusOf'[b] = "pending"]_vars

\* ---- C23
\* C23: in a distribution list response, the beneficiary_count of each listed
\* distribution is the number of item rows stored for that distribution.
C23_BeneficiaryCountIsItemCount ==
  \A p \in Procs :
     (Listed(p) /\ req[p].entity = "distributions" /\ result[p].status = 200) =>
        \A i \in 1..Len(result[p].items) :
           result[p].items[i].beneficiary_count
             = Len(distributionItems[result[p].items[i].id])

\* ---- C24
BearerTokens == {None} \cup {Some(k) : k \in AllTokens}

RequiredRoles(name) ==
  IF name \in {"POST /muzakki", "PUT /muzakki", "POST /mustahiq",
               "PUT /mustahiq", "POST /donation-receipts",
               "PUT /donation-receipts", "POST /distributions",
               "PUT /distributions"}
    THEN {"staf", "admin"}
  ELSE {"admin"}

Permitted(t, name) ==
  /\ t # None
  /\ Val(t) \in tokens
  /\ Val(t).kind = "access"
  /\ Val(t).role \in RequiredRoles(name)

dataTables ==
  <<muzakki, mustahiq, programs, asnaf, asnafOf, statusOf, roleOf,
    receiptTables, distributionTables>>

ReferenceKinds == {"muzakki", "mustahiq", "program"}
ReferenceIds ==
  MuzakkiIds \cup MustahiqIds \cup ProgramIds \cup {"m0", "p0"}

\* C25: a receipt or distribution Create/Update that ended in a failed
\* reference check returned an error that names the kind of reference (donor,
\* beneficiary or program) and the id that did not resolve.
C25_ReferenceErrorNamesKindAndId ==
  \A p \in Procs :
     (/\ pc[p] = "done"
      /\ req[p].op \in {"ReceiptCreate", "ReceiptUpdate", "DistributionCreate",
                        "DistributionUpdate"}
      /\ result[p] \in {"muzakki not found", "mustahiq not found",
                        "program not found", "program or user not found"}
                       \cup {k \o " not found: " \o id :
                               k \in ReferenceKinds, id \in ReferenceIds})
     => \E k \in ReferenceKinds, id \in References(req[p]) :
           result[p] = k \o " not found: " \o id

\* ---- C26
\* C26: whenever an Update of a receipt or distribution commits, whatever
\* other Update of the same row ran beside it, the stored header (total_amount
\* included) and the stored item rows of that id are exactly those of the
\* committing Update; so after two concurrent Updates have both committed the
\* row is entirely that of the one that committed last.
C26_UpdateCommitsWhole ==
  [][\A p \in Procs :
        /\ (ReceiptRepoCommit(p) /\ req[p].op = "ReceiptUpdate")
           => /\ receipts'[req[p].id] = ReceiptHeader(req[p])
              /\ receipts'[req[p].id].total_amount = SumAmounts(Val(req[p].items))
              /\ receiptItems'[req[p].id] = Val(req[p].items)
        /\ (DistributionRepoCommit(p) /\ req[p].op = "DistributionUpdate")
           => /\ distributions'[req[p].id] = DistributionHeader(req[p])
              /\ distributions'[req[p].id].total_amount
                   = SumAmounts(Val(req[p].items))
              /\ distributionItems'[req[p].id] = Val(req[p].items)]_vars

\* two Updates of receipt 1 with different numbers and items have both
\* committed; the row is that of process 2
C26_Witness ==
  /\ \A p \in Procs : /\ pc[p] = "done" /\ req[p].op = "ReceiptUpdate"
                      /\ req[p].id = 1 /\ result[p] = "ok"
  /\ req[1].receipt_number # req[2].receipt_number
  /\ Len(Val(req[1].items)) # Len(Val(req[2].items))
  /\ receipts[1] = ReceiptHeader(req[2])
  /\ receiptItems[1] = Val(req[2].items)

\* ---- C27
\* C27: an Update whose header row is gone when its UPDATE statement runs
\* (deleted by another request after the use case's existence check) returns
\* not-found, leaves every table as it was with no transaction open, and no
\* item rows exist for an id that has no header; a well-formed Update of an
\* id that never existed returns not-found from the use case and changes
\* nothing.
C27_UpdateOfMissingHeader ==
  /\ [](/\ \A id \in ReceiptIds \ DOMAIN receipts : receiptItems[id] = <<>>
        /\ \A id \in DistributionIds \ DOMAIN distributions :
              distributionItems[id] = <<>>)
  /\ [][\A p \in Procs :
          /\ (ReceiptRepoUpdateHeader(p) /\ req[p].id \notin DOMAIN receipts)
             => /\ result'[p] = "donation receipt not found"
                /\ pc'[p] = "done" /\ ~tx'[p].open
                /\ UNCHANGED storage
          /\ (DistributionRepoUpdateHeader(p)
              /\ req[p].id \notin DOMAIN distributions)
             => /\ result'[p] = "distribution not found"
                /\ pc'[p] = "done" /\ ~tx'[p].open
                /\ UNCHANGED storage]_vars
  /\ [][\A p \in Procs, dbUp \in BOOLEAN :
          /\ \A in \in ReceiptInputs :
                (/\ in.id >= nextReceiptId
                 /\ ValidateReceiptInput(in) = {}
                 /\ ~ZakatTypeMissing(Val(in.items))
                 /\ ReceiptUseCaseUpdate(p, in, dbUp))
                => /\ result'[p] = "donation receipt not found"
                   /\ pc'[p] = "done" /\ UNCHANGED storage
          /\ \A in \in DistributionInputs :
                (/\ in.id >= nextDistributionId
                 /\ ValidateDistributionInput(in) = {}
                 /\ DistributionUseCaseUpdate(p, in, dbUp))
                => /\ result'[p] = "distribution not found"
                   /\ pc'[p] = "done" /\ UNCHANGED storage]_vars

\* process 1 passed the existence check of its Update of receipt 1, process 2
\* deleted the receipt, and the UPDATE of process 1 found no row
C27_Witness ==
  /\ pc[1] = "done" /\ req[1].op = "ReceiptUpdate" /\ req[1].id = 1
  /\ req[1].confirmed # {}
  /\ result[1] = "donation receipt not found"
  /\ pc[2] = "done" /\ req[2].op = "ReceiptDelete" /\ req[2].id = 1
  /\ result[2] = "ok"
  /\ 1 \notin DOMAIN receipts /\ receiptItems[1] = <<>>

\* ---- C28
\* the receipts a receipt list request q is to count: those that satisfy the
\* header-level predicate and, when an item-level filter is supplied, have
\* an item that satisfies every supplied item-level predicate
ReceiptsToList(q) ==
  {id \in DOMAIN receipts :
     /\ q.date_from # None =>
           DateLE(Val(q.date_from), receipts[id].receipt_date)
     /\ (q.fund_type # "" \/ q.zakat_type # "") =>
           \E i \in 1..Len(receiptItems[id]) :
              /\ q.fund_type # "" => receiptItems[id][i].fund_type = q.fund_type
              /\ q.zakat_type # "" =>
                    receiptItems[id][i].zakat_type = Some(q.zakat_type)}

\* C28: in an answered receipt list, total is the number of distinct
\* receipts that satisfy the header-level predicates and, if item-level
\* filters are supplied, have at least one item satisfying all of them;
\* every listed receipt is one of those and is listed once, however many of
\* its items match.
C28_ReceiptListCountsReceiptsOnce ==
  (pc[1] = "done" /\ req[1].op = "ReceiptFindAll" /\ result[1].status = 200) =>
     /\ result[1].total = Cardinality(ReceiptsToList(req[1]))
     /\ \A i \in 1..Len(result[1].rows) :
           /\ result[1].rows[i] \in ReceiptsToList(req[1])
           /\ \A j \in 1..Len(result[1].rows) :
                 result[1].rows[i] = result[1].rows[j] => i = j
     /\ (req[1].page = None /\ req[1].per_page = None) =>
           Len(result[1].rows) = result[1].total

\* receipt 1 has two infaq items, the list was asked for fund_type infaq, and
\* the receipt is listed once and counted once
C28_Witness ==
  /\ pc[1] = "done" /\ req[1].op = "ReceiptFindAll"
  /\ req[1].fund_type = "infaq" /\ req[1].zakat_type = ""
  /\ DOMAIN receipts = {1}
  /\ Len(receiptItems[1]) = 2
  /\ \A i \in 1..2 : receiptItems[1][i].fund_type = "infaq"
  /\ result[1].status = 200
  /\ result[1].total = 1
  /\ result[1].rows = <<1>>

\* ---- C29
\* C29: RefreshToken fails with no token issued when the token is not a
\* valid refresh token or its user has no row; otherwise it returns the same
\* refresh token and an access token for that user carrying the role stored
\* for the user at that moment (so the role a preceding UpdateRole stored),
\* whatever role the refresh token carries.
C29_RefreshUsesStoredRole ==
  [][\A t \in BearerTokens :
        AuthRefresh(1, t) =>
          IF t = None \/ Val(t) \notin tokens \/ Val(t).kind # "refresh"
            THEN /\ result'[1] = AuthFailed("refresh token tidak valid")
                 /\ tokens' = tokens
          ELSE IF Val(t).user \notin users
            THEN /\ result'[1] = AuthFailed("user tidak ditemukan")
                 /\ tokens' = tokens
          ELSE /\ result'[1].err = ""
               /\ result'[1].refresh = t
               /\ result'[1].access
                    = Some([kind |-> "access", user |-> Val(t).user,
                            role |-> roleOf[Val(t).user]])
               /\ Val(result'[1].access) \in tokens'
               /\ UNCHANGED storage]_vars

\* user 2 registered as viewer, was made staf by UpdateRole, and refreshed
\* with the refresh token that still says viewer
C29_Witness ==
  /\ workload = "auth"
  /\ pc[1] = "done" /\ req[1].op = "RefreshToken"
  /\ req[1].token = Some([kind |-> "refresh", user |-> 2, role |-> "viewer"])
  /\ roleOf[2] = "staf"
  /\ result[1].err = ""
  /\ Val(result[1].access).role = "staf"
  /\ result[1].refresh = req[1].token

\* ---- C30
CallerTokens == {Some(k) : k \in AllTokens}
RoleTargets == 1..(MaxAuthUsers + 1)
RoleTexts == Roles \cup {"", "staff"}

====
